---- MODULE Spec2Model ----
(***************************************************************************)
(* Model of minect: the batch protocol of MinecraftConnection              *)
(* (src/src/lib.rs), the log observer (src/src/log/observer.rs) and the    *)
(* placement engines (src/src/placement.rs, src/src/structure/placement.rs,*)
(* src/src/geometry3.rs).                                                  *)
(*                                                                         *)
(* Specifications:                                                         *)
(*   Spec     the batch protocol: publishers calling execute_commands on   *)
(*            one channel, I/O failures, crashes, and the host loading     *)
(*            the published documents.                                     *)
(*   SpecAck  the batch protocol with the acknowledgment listener.         *)
(*   SpecConnect the batch protocol with a concurrent connect.             *)
(*   SpecObs  a running log observer on a log file that grows.             *)
(*   SpecRot  a running log observer on a log file that is rotated.        *)
(*   SpecNew  LogObserver::new and the run that follows it.                *)
(*   SpecLife the life of the background thread: drop of the LogObserver,  *)
(*            panics of the thread.                                        *)
(*   SpecLocks the locks of the subscriber registries while the thread     *)
(*            processes events and other threads register subscribers.     *)
(*   SpecPlace place_commands (src/src/structure/placement.rs).            *)
(*   SpecBlocks generate_command_blocks (src/src/placement.rs).            *)
(*   SpecOrient Orientation3 (src/src/geometry3.rs).                       *)
(*   SpecShared the batch protocol with the acknowledgment listener in a   *)
(*            world that a connection of another identifier uses too.      *)
(*   SpecSpiral QuaterSpiralCurve (src/src/structure/placement.rs).        *)
(*   SpecCuboid CuboidCurve (src/src/placement.rs).                        *)
(*   SpecLog  LogEvent parsed, formatted and parsed again (src/src/log.rs).*)
(*   SpecBuilder StructureBuilder (src/src/structure/mod.rs).              *)
(*   SpecOld  the observer of src/src/log_observer.rs.                     *)
(***************************************************************************)
EXTENDS Integers, Sequences, FiniteSets, TLC

(***************************************************************************)
(* Bounds and constants                                                    *)
(***************************************************************************)

\* Number of publisher processes sharing the channel.
NumProcs == 2

\* Number of execute_commands calls started in one behaviour.
MaxCalls == 3

\* Width of the batch id.  The code uses u64 (wrapping_add); the model keeps
\* the wrap-around at 2^IdBits.
IdBits == 4

IdModulus == 2 ^ IdBits

Procs == 1 .. NumProcs

Ids == 0 .. (IdModulus - 1)

\* Lines the host appends to the log file after the observer was created.
MaxLines == 2

\* Lines in the log file before the observer is created.
MaxHistory == 1

\* Subscribers registered in one behaviour.
MaxListeners == 2

\* Notifications the watcher's channel holds at a time.
MaxEvents == 1

\* Notifications about other paths, or of other kinds, in one behaviour.
MaxOther == 1

\* Rotations of the log file in one behaviour.
MaxRotations == 1

\* The executor names of the log lines and of the name filters.
Names == {"a", "b"}

\* What a log line can be: an event of an executor, or a malformed line.
LineKinds == [exec : Names, ok : {TRUE}] \cup {[exec |-> "a", ok |-> FALSE]}

\* The files that are, or were, at the path of the log file.
FileIds == 1 .. (MaxRotations + 1)

\* The byte '\n' of the log file.  The text of line k is two bytes, k and -k
\* (a line can reach the file in pieces).
Newline == 0

\* A byte of id.txt is a number; the decimal digits are 0..9, every other
\* value stands for a byte that is no digit.
IsDigit(b) == b \in 0 .. 9

\* A file of the structures directory: absent, or a document that embeds the
\* id of the next structure to load and the id its completion report is
\* tagged with; `batch` names the call that wrote it and `complete` tells
\* whether all of its bytes reached the file.
NoDoc ==
    [present |-> FALSE, complete |-> FALSE, next |-> 0, batch |-> 0, tag |-> 0]

(***************************************************************************)
(* Pure functions of lib.rs.  A Result<u64, _> is the set {v} for Ok(v)    *)
(* and {} for Err.                                                         *)
(***************************************************************************)

\* An increment that stops at the largest id instead of wrapping
\* (saturating_add).
WrappingInc_Saturating(n) == IF n + 1 >= IdModulus THEN n ELSE n + 1

\* u64::wrapping_add(1)
WrappingInc(n) == (n + 1) % IdModulus

\* u64::to_string: the decimal digits, most significant first
RECURSIVE to_string(_)
to_string(n) == IF n < 10 THEN <<n>> ELSE to_string(n \div 10) \o <<n % 10>>

\* str::parse::<u64>: an error on a non-digit and on overflow
RECURSIVE ParseFrom(_, _)
ParseFrom(acc, s) ==
    IF s = <<>> THEN {acc}
    ELSE IF ~IsDigit(Head(s)) THEN {}
    ELSE IF acc * 10 + Head(s) >= IdModulus THEN {}
    ELSE ParseFrom(acc * 10 + Head(s), Tail(s))

\* The byte '+', which str::parse::<u64> accepts in front of the digits.
PlusSign == 10

\* A parser that stops at the first byte that is no digit and returns the
\* number read so far (as atoi does).
RECURSIVE ParseLenient(_, _)
ParseLenient(acc, s) ==
    IF s = <<>> \/ ~IsDigit(Head(s)) THEN {acc % IdModulus}
    ELSE ParseLenient(acc * 10 + Head(s), Tail(s))

ParseU64_Lenient(s) == ParseLenient(0, s)

\* str::parse::<u64>: an error on the empty string, on a sign without
\* digits, on a byte that is no digit and on overflow
ParseU64(s) ==
    IF s = <<>> THEN {}
    ELSE IF Head(s) = PlusSign
         THEN IF Tail(s) = <<>> THEN {} ELSE ParseFrom(0, Tail(s))
         ELSE ParseFrom(0, s)

\* read_incremented_id: 0 on an empty file, the parsed value plus one
\* (wrapping) otherwise, an error when the content is no u64
read_incremented_id(content) ==
    IF content = <<>> THEN {0}
    ELSE { WrappingInc(v) : v \in ParseU64(content) }

\* let next_id = id.wrapping_add(1);
next_id_of(i) == WrappingInc(i)

\* add_implicit_commands with the completion report tagged with the id
\* that follows
add_implicit_commands_NextId(i, b) == [tag |-> WrappingInc(i), batch |-> b]

\* add_implicit_commands: the commands of the call, with the command that
\* reports completion as "minect_loaded_<id>" spliced in
add_implicit_commands(i, b) == [tag |-> i, batch |-> b]

\* generate_structure: the document of a call; its load block names next_id
generate_structure(next, commands) ==
    [present |-> TRUE, complete |-> TRUE, next |-> next,
     batch |-> commands.batch, tag |-> commands.tag]

\* The proper prefixes of a byte string: what a failed write_all can leave.
ProperPrefixes(s) == { SubSeq(s, 1, n) : n \in 0 .. (Len(s) - 1) }

(***************************************************************************)
(* State of one channel                                                    *)
(***************************************************************************)
VARIABLES
    counter,     \* content of id.txt, a sequence of bytes
    lockHolder,  \* the processes holding the exclusive lock on id.txt
    pc,          \* position of each process inside execute_commands
    id,          \* the id a process derived in this call
    before,      \* content of id.txt when the call took the lock
    batch,       \* number of the call a process is executing
    result,      \* how the last call of a process ended
    tmp,         \* tmp.nbt
    docs,        \* <id>.nbt for every id
    hostNext,    \* the id the host loads next
    loaded,      \* the batches the host has loaded
    consumed,    \* the ids the host has loaded a document of
    nCalls,      \* calls started so far
    okCalls,     \* the calls that returned Ok: [batch, id]
    lastOk,      \* id of the last call that returned Ok
    faults,      \* kinds of faults that happened so far
    connectRead, \* what connect read from id.txt, once it is `done`
    ackOn,       \* a LoadedListener of this channel is registered
    ackLog,      \* the "loaded" events not yet handed to on_event
    apc,         \* position of the thread inside LoadedListener::on_event
    ackN,        \* the id of the event on_event is handling
    ackI,        \* the local `i` of on_event
    ackTried,    \* the ids on_event has called remove_file for
    ackDeleted   \* the ids whose file on_event has removed

ackVars == <<ackOn, ackLog, apc, ackN, ackI, ackTried, ackDeleted>>

pubVars == <<counter, lockHolder, pc, id, before, batch, result, tmp, docs,
             hostNext, loaded, consumed, nCalls, okCalls, lastOk, faults,
             connectRead, ackVars>>

(***************************************************************************)
(* State of one log observer and of the log file it watches                *)
(***************************************************************************)
VARIABLES
    files,          \* content of every file that is or was at the log path
    pathFile,       \* the file the log path names now
    lineInfo,       \* line k of the log: its executor, and whether it parses
    history,        \* number of lines in the file when new() was called
    events,         \* the watcher's channel: notifications not yet received
    nOther,         \* notifications generated that are not about the log file
    nRot,           \* rotations so far
    mainPc,         \* the thread calling LogObserver::new
    bpc,            \* position of the background thread
    bafter,         \* where continue_to_read_file returns to
    positioned,     \* the background thread has sought the end of the file
    readerFile,     \* the file the reader has open
    readerPos,      \* the reader's offset in it
    observerHeld,   \* the LogObserver has not been dropped
    listeners,      \* registry of the unfiltered subscribers (senders)
    named,          \* registry of the filtered subscribers, by name
    loadedListeners,\* number of registered LoadedListeners
    alive,          \* subscribers whose stream has not been dropped
    inbox,          \* the events each subscriber's channel has received
    ackInbox,       \* the events handed to LoadedListener::on_event
    lname,          \* the filter a subscriber registered with ("*": none)
    regProcessed,   \* events processed when a subscriber registered
    regLines,       \* lines completely appended when a subscriber registered
    early,          \* subscribers registered before any line was appended
    nListeners,     \* subscribers registered so far
    processedLog    \* the lines parsed into events, in processing order

obsVars == <<files, pathFile, lineInfo, history, events, nOther, nRot, mainPc,
             bpc, bafter, positioned, readerFile, readerPos, observerHeld,
             listeners, named, loadedListeners, alive, inbox, ackInbox, lname,
             regProcessed, regLines, early, nListeners, processedLog>>

(***************************************************************************)
(* State of the placement engines and of the geometry functions            *)
(***************************************************************************)
VARIABLES
    chain,       \* place_commands: is_conditional of each command given
    ppc,         \* place_commands: position in the function
    curveIdx,    \* place_commands: elements taken from `curve` so far
    cur,         \* place_commands: what next_coordinate returned last
    pIdx,        \* place_commands: the command the for loop is at
    noopI,       \* place_commands: the local `i`
    noopCount,   \* place_commands: the local `no_op_count`
    placed       \* place_commands: `result`

placeVars == <<chain, ppc, curveIdx, cur, pIdx, noopI, noopCount, placed>>

VARIABLES
    gCmds,       \* generate_command_blocks: the commands the iterator holds
    gLen,        \* generate_command_blocks: commands_len
    gpc,         \* generate_command_blocks: position in the function
    gWarned,     \* generate_command_blocks: the warnings logged
    gCurve,      \* CuboidCurve::next (the field)
    gTaken,      \* elements taken from `commands` so far
    gBlocks      \* the blocks the returned iterator has yielded

blockVars == <<gCmds, gLen, gpc, gWarned, gCurve, gTaken, gBlocks>>

VARIABLES
    orientation, \* test_inverse: the orientation
    given,       \* test_inverse: the coordinate
    opc,         \* test_inverse: position in the loop body
    actual,      \* test_inverse: the coordinate as oriented so far
    inverted,    \* the orientation after nInverse calls of inverse
    nInverse     \* calls of inverse so far

orientVars == <<orientation, given, opc, actual, inverted, nInverse>>

engVars == <<placeVars, blockVars, orientVars>>

(***************************************************************************)
(* State of the locks of the subscriber registries                         *)
(***************************************************************************)
VARIABLES
    rw,          \* the RwLock of each registry: who holds which guard
    lLoaded,     \* loaded_listeners: number of listeners
    lListeners,  \* listeners: the senders
    lNamed,      \* named_listeners: the senders by name
    lAlive,      \* senders whose receiver has not been dropped
    lInbox,      \* events sent to each receiver
    lNext,       \* senders created so far
    lpc,         \* position of the background thread in process_line
    lExecutor,   \* executor of the event being processed
    lIdx,        \* the local indexes_to_delete
    lProcessed,  \* events processed so far
    upc          \* position of each other thread in its add_* call

lockVars == <<rw, lLoaded, lListeners, lNamed, lAlive, lInbox, lNext, lpc,
              lExecutor, lIdx, lProcessed, upc>>

(***************************************************************************)
(* State of the parts that are checked on their own                        *)
(***************************************************************************)
VARIABLES
    sPrim,       \* the curve of place_commands: prim_size
    sNext,       \* QuaterSpiralCurve: the field next
    sItems       \* the items QuaterSpiralCurve has yielded

spiralVars == <<sPrim, sNext, sItems>>

VARIABLES
    eLine,       \* a line of the log file, as characters
    eEvent,      \* the LogEvent parsed from eLine, if any
    eString,     \* eEvent formatted by Display
    eAgain,      \* the result of parsing eString
    epc          \* how far the round trip has come

logVars == <<eLine, eEvent, eString, eAgain, epc>>

VARIABLES
    bSize,       \* StructureBuilder: size
    bPalette,    \* StructureBuilder: palette
    bBlocks,     \* StructureBuilder: blocks
    bAdded       \* the blocks handed to add_block, in order

builderVars == <<bSize, bPalette, bBlocks, bAdded>>

VARIABLES
    cSize,       \* CuboidCurve: size
    cNext,       \* CuboidCurve: the field next
    cItems,      \* the items CuboidCurve has yielded
    cEnded       \* CuboidCurve::next has returned None

cuboidVars == <<cSize, cNext, cItems, cEnded>>

VARIABLES
    qVec,        \* log_observer.rs: listener_vec, the senders of the general listeners
    qMap,        \* log_observer.rs: listeners, one sender per name
    qAlive,      \* the senders whose receiver is not dropped
    qNext,       \* senders created so far
    qpc,         \* where the thread of log_observer.rs is in process_line
    qExecutor,   \* the executor of the event being processed
    qIdx,        \* process_line: delete_indexes
    qProcessed   \* events processed so far

oldVars == <<qVec, qMap, qAlive, qNext, qpc, qExecutor, qIdx, qProcessed>>

unitVars == <<spiralVars, logVars, builderVars, cuboidVars, oldVars>>

spiralRest == <<pubVars, obsVars, engVars, lockVars, logVars, builderVars, cuboidVars, oldVars>>

logRest == <<pubVars, obsVars, engVars, lockVars, spiralVars, builderVars, cuboidVars, oldVars>>

builderRest == <<pubVars, obsVars, engVars, lockVars, spiralVars, logVars, cuboidVars, oldVars>>

cuboidRest == <<pubVars, obsVars, engVars, lockVars, spiralVars, logVars, builderVars, oldVars>>

oldRest == <<pubVars, obsVars, engVars, lockVars, spiralVars, logVars, builderVars, cuboidVars>>

sideVars == <<engVars, lockVars, unitVars>>

vars == <<pubVars, obsVars, sideVars>>

\* connect has not read id.txt.
NoRead ==
    [done |-> FALSE, structure_id |-> {}, truncated |-> FALSE]

\* A byte that is neither a digit nor a sign.
Letter == 11

\* The counter files a channel can start with: a fresh channel, channels
\* that have published up to the last ids before the wrap-around, and
\* counter files that something else has written: a number that is no u64
\* and text that is no number.
InitCounters ==
    { <<>>, to_string(IdModulus - 2), to_string(IdModulus - 1),
      to_string(IdModulus), <<1, Letter>> }

InitPub ==
    /\ counter \in InitCounters
    /\ lockHolder = {}
    /\ pc = [p \in Procs |-> "idle"]
    /\ id = [p \in Procs |-> 0]
    /\ before = [p \in Procs |-> <<>>]
    /\ batch = [p \in Procs |-> 0]
    /\ result = [p \in Procs |-> "none"]
    /\ tmp = NoDoc
    /\ docs = [i \in Ids |-> NoDoc]
    \* connect() installs the host with the id the next publish will use
    /\ hostNext \in IF read_incremented_id(counter) = {} THEN {0}
                     ELSE read_incremented_id(counter)
    /\ connectRead = NoRead
    /\ loaded = {}
    /\ consumed = {}
    /\ nCalls = 0
    /\ okCalls = {}
    /\ lastOk = {}
    /\ faults = {}
    /\ ackOn \in BOOLEAN
    /\ ackLog = <<>>
    /\ apc = "idle"
    /\ ackN = 0
    /\ ackI = 0
    /\ ackTried = {}
    /\ ackDeleted = {}

hostVars == <<hostNext, loaded, consumed>>

\* Leaving execute_commands: id_file is dropped, which releases the lock, and
\* the locals of the call are gone.
Return(p, res) ==
    /\ pc' = [pc EXCEPT ![p] = "idle"]
    /\ result' = [result EXCEPT ![p] = res]
    /\ lockHolder' = lockHolder \ {p}
    /\ id' = [id EXCEPT ![p] = 0]
    /\ before' = [before EXCEPT ![p] = <<>>]
    /\ batch' = [batch EXCEPT ![p] = 0]

\* An error return that leaks the locked file handle.
ReturnErr_KeepsLock(p) ==
    /\ pc' = [pc EXCEPT ![p] = "idle"]
    /\ result' = [result EXCEPT ![p] = "err"]
    /\ lockHolder' = lockHolder
    /\ id' = [id EXCEPT ![p] = 0]
    /\ before' = [before EXCEPT ![p] = <<>>]
    /\ batch' = [batch EXCEPT ![p] = 0]
    /\ faults' = faults \cup {"io"}

\* Err(...) through the ? operator
ReturnErr(p) ==
    /\ Return(p, "err")
    /\ faults' = faults \cup {"io"}

\* create_datapack / create_dir_all / lock_file fail: the call ends before
\* it holds the lock.
EarlyFail(p) ==
    /\ pc[p] = "idle"
    /\ nCalls < MaxCalls
    /\ nCalls' = nCalls + 1
    /\ ReturnErr(p)
    /\ UNCHANGED <<counter, tmp, docs, hostVars, okCalls, lastOk>>
    /\ UNCHANGED <<connectRead, ackVars>>
    /\ UNCHANGED <<obsVars, sideVars>>

\* lock_file: open id.txt (creating it empty) and lock_exclusive, which
\* blocks while another process holds the lock.
LockFile(p) ==
    /\ pc[p] = "idle"
    /\ nCalls < MaxCalls
    /\ lockHolder = {}
    /\ lockHolder' = {p}
    /\ nCalls' = nCalls + 1
    /\ batch' = [batch EXCEPT ![p] = nCalls + 1]
    /\ before' = [before EXCEPT ![p] = counter]
    /\ pc' = [pc EXCEPT ![p] = "locked"]
    /\ result' = [result EXCEPT ![p] = "none"]
    /\ UNCHANGED <<counter, id, tmp, docs, hostVars, okCalls, lastOk, faults>>
    /\ UNCHANGED <<connectRead, ackVars>>
    /\ UNCHANGED <<obsVars, sideVars>>

\* let id = read_incremented_id(&mut id_file, &id_path)?;
ReadId(p) ==
    /\ pc[p] = "locked"
    /\ \E i \in read_incremented_id(counter) :
          id' = [id EXCEPT ![p] = i]
    /\ pc' = [pc EXCEPT ![p] = "read"]
    /\ UNCHANGED <<counter, lockHolder, before, batch, result, tmp, docs,
                   hostVars, nCalls, okCalls, lastOk, faults>>
    /\ UNCHANGED <<connectRead, ackVars>>
    /\ UNCHANGED <<obsVars, sideVars>>

\* read_to_string fails, or the content is no u64
ReadIdFail(p) ==
    /\ pc[p] = "locked"
    /\ ReturnErr(p)
    /\ UNCHANGED <<counter, tmp, docs, hostVars, nCalls, okCalls, lastOk>>
    /\ UNCHANGED <<connectRead, ackVars>>
    /\ UNCHANGED <<obsVars, sideVars>>

\* create_structure_file, File::create: tmp.nbt exists and is empty
CreateTmp(p) ==
    /\ pc[p] = "read"
    /\ tmp' = [generate_structure(next_id_of(id[p]),
                                  add_implicit_commands(id[p], batch[p]))
                 EXCEPT !.complete = FALSE]
    /\ pc' = [pc EXCEPT ![p] = "tmp_created"]
    /\ UNCHANGED <<counter, lockHolder, id, before, batch, result, docs,
                   hostVars, nCalls, okCalls, lastOk, faults>>
    /\ UNCHANGED <<connectRead, ackVars>>
    /\ UNCHANGED <<obsVars, sideVars>>

\* create(path)? fails
CreateTmpFail(p) ==
    /\ pc[p] = "read"
    /\ ReturnErr(p)
    /\ UNCHANGED <<counter, tmp, docs, hostVars, nCalls, okCalls, lastOk>>
    /\ UNCHANGED <<connectRead, ackVars>>
    /\ UNCHANGED <<obsVars, sideVars>>

\* create_structure_file, the write: nbt::to_gzip_writer into a BufWriter.
\* Either every byte reaches the file, or a write fails when the gzip encoder
\* and the BufWriter are flushed on drop, where the error is discarded and
\* create_structure_file still returns Ok(()).  (A write error reported by
\* to_gzip_writer itself panics on unwrap: see Crash.)
WriteTmp(p) ==
    /\ pc[p] = "tmp_created"
    /\ \E flushed \in BOOLEAN :
          /\ tmp' = [tmp EXCEPT !.complete = flushed]
          /\ faults' = IF flushed THEN faults ELSE faults \cup {"io"}
    /\ pc' = [pc EXCEPT ![p] = "tmp_written"]
    /\ UNCHANGED <<counter, lockHolder, id, before, batch, result, docs,
                   hostVars, nCalls, okCalls, lastOk>>
    /\ UNCHANGED <<connectRead, ackVars>>
    /\ UNCHANGED <<obsVars, sideVars>>

\* rename(tmp_path, self.get_structure_file(id))?;
Rename(p) ==
    /\ pc[p] = "tmp_written"
    /\ docs' = [docs EXCEPT ![id[p]] = tmp]
    /\ tmp' = NoDoc
    /\ pc' = [pc EXCEPT ![p] = "renamed"]
    /\ UNCHANGED <<counter, lockHolder, id, before, batch, result, hostVars,
                   nCalls, okCalls, lastOk, faults>>
    /\ UNCHANGED <<connectRead, ackVars>>
    /\ UNCHANGED <<obsVars, sideVars>>

RenameFail(p) ==
    /\ pc[p] = "tmp_written"
    /\ ReturnErr(p)
    /\ UNCHANGED <<counter, tmp, docs, hostVars, nCalls, okCalls, lastOk>>
    /\ UNCHANGED <<connectRead, ackVars>>
    /\ UNCHANGED <<obsVars, sideVars>>

\* write_id: file.set_len(0)
SetLen(p) ==
    /\ pc[p] = "renamed"
    /\ counter' = <<>>
    /\ pc' = [pc EXCEPT ![p] = "truncated"]
    /\ UNCHANGED <<lockHolder, id, before, batch, result, tmp, docs, hostVars,
                   nCalls, okCalls, lastOk, faults>>
    /\ UNCHANGED <<connectRead, ackVars>>
    /\ UNCHANGED <<obsVars, sideVars>>

SetLenFail(p) ==
    /\ pc[p] = "renamed"
    /\ ReturnErr(p)
    /\ UNCHANGED <<counter, tmp, docs, hostVars, nCalls, okCalls, lastOk>>
    /\ UNCHANGED <<connectRead, ackVars>>
    /\ UNCHANGED <<obsVars, sideVars>>

\* write_id: seek and write_all(id.to_string().as_bytes()), then Ok(())
WriteAll(p) ==
    /\ pc[p] = "truncated"
    /\ counter' = to_string(id[p])
    /\ okCalls' = okCalls \cup {[batch |-> batch[p], id |-> id[p]]}
    /\ lastOk' = {id[p]}
    /\ Return(p, "ok")
    /\ UNCHANGED <<tmp, docs, hostVars, nCalls, faults>>
    /\ UNCHANGED <<connectRead, ackVars>>
    /\ UNCHANGED <<obsVars, sideVars>>

\* write_id: seek fails, or write_all fails after writing some of the bytes
WriteAllFail(p) ==
    /\ pc[p] = "truncated"
    /\ counter' \in ProperPrefixes(to_string(id[p]))
    /\ ReturnErr(p)
    /\ UNCHANGED <<tmp, docs, hostVars, nCalls, okCalls, lastOk>>
    /\ UNCHANGED <<connectRead, ackVars>>
    /\ UNCHANGED <<obsVars, sideVars>>

\* The process dies inside the call (killed, or the unwrap of
\* create_structure_file panics): the operating system releases the lock.
Crash(p) ==
    /\ pc[p] # "idle"
    /\ Return(p, "crashed")
    /\ faults' = faults \cup {IF pc[p] = "renamed" THEN "crash_renamed" ELSE "crash"}
    /\ UNCHANGED <<counter, tmp, docs, hostVars, nCalls, okCalls, lastOk>>
    /\ UNCHANGED <<connectRead, ackVars>>
    /\ UNCHANGED <<obsVars, sideVars>>

\* The host loads the structure it waits for once the file is a valid
\* document, runs it, and then waits for the structure the document names.
\* Running the document's completion report writes the line
\* "[minect_loaded: Summoned new minect_loaded_<tag>]" to the log, which the
\* log observer hands to the registered LoadedListener.
HostLoad ==
    /\ docs[hostNext].present
    /\ docs[hostNext].complete
    /\ loaded' = loaded \cup {docs[hostNext].batch}
    /\ consumed' = consumed \cup {hostNext}
    /\ hostNext' = docs[hostNext].next
    /\ ackLog' = IF ackOn THEN Append(ackLog, docs[hostNext].tag) ELSE ackLog
    /\ UNCHANGED <<counter, lockHolder, pc, id, before, batch, result, tmp,
                   docs, nCalls, okCalls, lastOk, faults>>
    /\ UNCHANGED <<connectRead, ackOn, apc, ackN, ackI, ackTried, ackDeleted>>
    /\ UNCHANGED <<obsVars, sideVars>>

\* u64::wrapping_sub
WrappingSub(n, i) == (n - i) % IdModulus

\* on_event that gives up when the file of the event's id cannot be removed
OnEventRemove_StopsOnError(ok) ==
    /\ apc = "idle"
    /\ ackLog # <<>>
    /\ ok => docs[Head(ackLog)].present
    /\ ackLog' = Tail(ackLog)
    /\ ackN' = Head(ackLog)
    /\ ackI' = 1
    /\ ackTried' = {Head(ackLog)}
    /\ ackDeleted' = IF ok THEN {Head(ackLog)} ELSE {}
    /\ docs' = IF ok THEN [docs EXCEPT ![Head(ackLog)] = NoDoc] ELSE docs
    /\ apc' = IF ok THEN "sweep" ELSE "done"
    /\ UNCHANGED <<counter, lockHolder, pc, id, before, batch, result, tmp,
                   hostVars, nCalls, okCalls, lastOk, faults, connectRead,
                   ackOn>>
    /\ UNCHANGED <<obsVars, sideVars>>

\* LoadedListener::on_event, parse_loaded_output and the first remove_file:
\* the file of the event's id is removed (`ok`), or the removal fails
\* because the file is absent or cannot be removed; the error is logged and
\* on_event goes on.
OnEventRemove(ok) ==
    /\ apc = "idle"
    /\ ackLog # <<>>
    /\ ok => docs[Head(ackLog)].present
    /\ ackLog' = Tail(ackLog)
    /\ ackN' = Head(ackLog)
    /\ ackI' = 1
    /\ ackTried' = {Head(ackLog)}
    /\ ackDeleted' = IF ok THEN {Head(ackLog)} ELSE {}
    /\ docs' = IF ok THEN [docs EXCEPT ![Head(ackLog)] = NoDoc] ELSE docs
    /\ apc' = "sweep"
    /\ UNCHANGED <<counter, lockHolder, pc, id, before, batch, result, tmp,
                   hostVars, nCalls, okCalls, lastOk, faults, connectRead,
                   ackOn>>
    /\ UNCHANGED <<obsVars, sideVars>>

\* on_event, one pass of `while let Ok(()) = remove_file(id.wrapping_sub(i))`:
\* the file is removed and i incremented, or the removal fails (the file is
\* absent or cannot be removed) and the loop ends.
OnEventSweep(ok) ==
    /\ apc = "sweep"
    /\ ok => docs[WrappingSub(ackN, ackI)].present
    /\ ackTried' = ackTried \cup {WrappingSub(ackN, ackI)}
    /\ ackDeleted' = IF ok THEN ackDeleted \cup {WrappingSub(ackN, ackI)}
                      ELSE ackDeleted
    /\ docs' = IF ok THEN [docs EXCEPT ![WrappingSub(ackN, ackI)] = NoDoc]
                ELSE docs
    /\ ackI' = IF ok THEN ackI + 1 ELSE ackI
    /\ apc' = IF ok THEN "sweep" ELSE "done"
    /\ UNCHANGED <<counter, lockHolder, pc, id, before, batch, result, tmp,
                   hostVars, nCalls, okCalls, lastOk, faults, connectRead,
                   ackOn, ackLog, ackN>>
    /\ UNCHANGED <<obsVars, sideVars>>

\* on_event returns to process_line.
OnEventReturn ==
    /\ apc = "done"
    /\ apc' = "idle"
    /\ ackN' = 0
    /\ ackI' = 0
    /\ ackTried' = {}
    /\ ackDeleted' = {}
    /\ UNCHANGED <<counter, lockHolder, pc, id, before, batch, result, tmp,
                   docs, hostVars, nCalls, okCalls, lastOk, faults,
                   connectRead, ackOn, ackLog>>
    /\ UNCHANGED <<obsVars, sideVars>>

\* The host loads a document of a connection with another identifier in the
\* same world.  Its completion report is tagged with the id n of that
\* document in the other structures directory; the line goes to the one
\* log file, and the log observer hands it to every LoadedListener.  The
\* reports followed are those with the id of a document that lies in the
\* structures directory of this connection and that the host has not
\* loaded, one report at a time.
OtherConnectionLoaded(n) ==
    /\ ackOn
    /\ ackLog = <<>>
    /\ apc = "idle"
    /\ docs[n].present
    /\ n \notin consumed
    /\ ackLog' = Append(ackLog, n)
    /\ UNCHANGED <<counter, lockHolder, pc, id, before, batch, result, tmp,
                   docs, hostVars, nCalls, okCalls, lastOk, faults>>
    /\ UNCHANGED <<connectRead, ackOn, apc, ackN, ackI, ackTried, ackDeleted>>
    /\ UNCHANGED <<obsVars, sideVars>>

NextAck ==
    \/ \E ok \in BOOLEAN : OnEventRemove(ok)
    \/ \E ok \in BOOLEAN : OnEventSweep(ok)
    \/ OnEventReturn


\* connect: File::open(id.txt) and read_incremented_id, without a lock; the
\* id it derives is installed in the connector the host runs.  `truncated`
\* records whether a publisher was inside write_id, between set_len(0) and
\* write_all, at the time of the read.
ConnectRead ==
    /\ ~connectRead.done
    /\ connectRead' = [done |-> TRUE,
                       structure_id |-> read_incremented_id(counter),
                       truncated |-> \E p \in Procs : pc[p] = "truncated"]
    /\ UNCHANGED <<counter, lockHolder, pc, id, before, batch, result, tmp,
                   docs, hostVars, nCalls, okCalls, lastOk, faults, ackVars>>
    /\ UNCHANGED <<obsVars, sideVars>>

NextPub ==
    \/ \E p \in Procs : EarlyFail(p)
    \/ \E p \in Procs : LockFile(p)
    \/ \E p \in Procs : ReadId(p)
    \/ \E p \in Procs : ReadIdFail(p)
    \/ \E p \in Procs : CreateTmp(p)
    \/ \E p \in Procs : CreateTmpFail(p)
    \/ \E p \in Procs : WriteTmp(p)
    \/ \E p \in Procs : Rename(p)
    \/ \E p \in Procs : RenameFail(p)
    \/ \E p \in Procs : SetLen(p)
    \/ \E p \in Procs : SetLenFail(p)
    \/ \E p \in Procs : WriteAll(p)
    \/ \E p \in Procs : WriteAllFail(p)
    \/ \E p \in Procs : Crash(p)
    \/ HostLoad

(***************************************************************************)
(* The log observer (log/observer.rs)                                      *)
(***************************************************************************)

Range(f) == { f[i] : i \in DOMAIN f }

ListenerIds == 1 .. MaxListeners

\* The bytes of line k in the log file.
LineHead(k) == <<k>>

LineRest(k) == <<-k, Newline>>

LineBytes(k) == LineHead(k) \o LineRest(k)

\* BufRead::read_until(b'\n'): the bytes from the reader's offset up to and
\* including the next newline, or up to the end of the file; none at the end
\* of the file (and none while the offset lies behind a truncated file).
read_until(content, pos) ==
    IF pos >= Len(content) THEN <<>>
    ELSE LET nls == { i \in (pos + 1) .. Len(content) : content[i] = Newline }
         IN IF nls = {} THEN SubSeq(content, pos + 1, Len(content))
            ELSE SubSeq(content, pos + 1,
                        CHOOSE i \in nls : \A j \in nls : i <= j)

\* str::trim_end for the line terminator
trim_end(chunk) ==
    IF chunk # <<>> /\ chunk[Len(chunk)] = Newline
    THEN SubSeq(chunk, 1, Len(chunk) - 1)
    ELSE chunk

\* LogEvent::from_str: {k} when the chunk is the whole text of a well-formed
\* line k, {} otherwise
from_str(chunk) ==
    LET t == trim_end(chunk)
    IN IF Len(t) = 2 /\ t[1] \in DOMAIN lineInfo /\ t[2] = -t[1]
       THEN IF lineInfo[t[1]].ok THEN {t[1]} ELSE {}
       ELSE {}

\* send_event_to_listeners: the channels after sending event k to every
\* sender of the list; a send to a dropped receiver fails
send_event_to_listeners(inb, ids, k) ==
    [l \in DOMAIN inb |->
        IF l \in Range(ids) /\ l \in alive THEN Append(inb[l], k) ELSE inb[l]]

\* send_event_to_listeners: the indexes whose send failed
indexes_to_delete(ids) == { i \in DOMAIN ids : ids[i] \notin alive }

\* delete_indexes removing front to back, so that the later indexes name
\* the wrong elements
RECURSIVE delete_indexes_FrontToBack(_, _)
delete_indexes_FrontToBack(ids, idx) ==
    IF idx = {} THEN ids
    ELSE LET first == CHOOSE i \in idx : \A j \in idx : i <= j
         IN delete_indexes_FrontToBack(SubSeq(ids, 1, first - 1) \o
                                       SubSeq(ids, first + 1, Len(ids)),
                                       idx \ {first})

\* delete_indexes removing as many senders as indexes were given, from the
\* end of the list.
delete_indexes_FromEnd(ids, idx) == SubSeq(ids, 1, Len(ids) - Cardinality(idx))

\* delete_indexes: back to front
RECURSIVE delete_indexes(_, _)
delete_indexes(ids, idx) ==
    IF idx = {} THEN ids
    ELSE LET last == CHOOSE i \in idx : \A j \in idx : j <= i
         IN delete_indexes(SubSeq(ids, 1, last - 1) \o
                           SubSeq(ids, last + 1, Len(ids)), idx \ {last})

\* send_event_to_named_listeners, the removal pass with the whole entry
\* removed as soon as one send failed
prune_named_DropsEntry(reg, name) ==
    IF name \notin DOMAIN reg \/ indexes_to_delete(reg[name]) = {} THEN reg
    ELSE [n \in (DOMAIN reg) \ {name} |-> reg[n]]

\* send_event_to_named_listeners, the removal pass: the entry of the name is
\* removed when every send failed, the failed senders otherwise
prune_named(reg, name) ==
    IF name \notin DOMAIN reg \/ indexes_to_delete(reg[name]) = {} THEN reg
    ELSE IF Cardinality(indexes_to_delete(reg[name])) = Len(reg[name])
         THEN [n \in (DOMAIN reg) \ {name} |-> reg[n]]
         ELSE [reg EXCEPT ![name] =
                  delete_indexes(reg[name], indexes_to_delete(reg[name]))]

\* The senders registered under a name.
NamedSenders(reg, name) == IF name \in DOMAIN reg THEN reg[name] ELSE <<>>

\* process_line: parse the chunk; hand an event to the loaded listeners, the
\* unfiltered subscribers and the subscribers of its executor, and remove
\* the senders whose receiver is gone.  A malformed line changes nothing.
process_line(chunk) ==
    IF from_str(chunk) = {}
    THEN UNCHANGED <<inbox, ackInbox, listeners, named, processedLog>>
    ELSE \E k \in from_str(chunk) :
            /\ ackInbox' = IF loadedListeners > 0
                           THEN Append(ackInbox, k) ELSE ackInbox
            /\ inbox' = send_event_to_listeners(
                            send_event_to_listeners(inbox, listeners, k),
                            NamedSenders(named, lineInfo[k].exec), k)
            /\ listeners' = delete_indexes(listeners,
                                           indexes_to_delete(listeners))
            /\ named' = prune_named(named, lineInfo[k].exec)
            /\ processedLog' = Append(processedLog, k)

fsVars == <<files, pathFile, lineInfo, history, nRot>>

readerVars == <<readerFile, readerPos>>

registryVars == <<listeners, named, loadedListeners, alive, inbox, ackInbox,
                  lname, regProcessed, regLines, early, nListeners,
                  processedLog>>

threadVars == <<mainPc, bpc, bafter, positioned, observerHeld>>

\* The watcher is registered: changes of the log file are notified.
Watching == bpc \notin {"not_started", "spawned", "panicked"}

\* The LogObserver exists and can be used to register subscribers.
ObserverUsable == mainPc = "returned" /\ observerHeld

\* ---- the host and the file system ----

\* The last line of the log file lacks its end.
LinePending ==
    /\ files[pathFile] # <<>>
    /\ files[pathFile][Len(files[pathFile])] # Newline

\* What a write to the log file does to the watcher's channel: the watcher
\* reports the change, or does not (some platforms deliver no modify events).
NotifyModify ==
    \E notify \in BOOLEAN :
        events' = IF notify /\ Watching /\ Len(events) < MaxEvents
                  THEN Append(events, "modify") ELSE events

\* The host appends a line to the log file in one write.
AppendLine ==
    /\ Len(lineInfo) < history + MaxLines
    /\ mainPc # "init"
    /\ ~LinePending
    /\ \E kind \in LineKinds :
          lineInfo' = Append(lineInfo, kind)
    /\ files' = [files EXCEPT ![pathFile] =
                    @ \o LineBytes(Len(lineInfo) + 1)]
    /\ NotifyModify
    /\ UNCHANGED <<pathFile, history, nRot, nOther, readerVars, registryVars,
                   threadVars>>
    /\ UNCHANGED <<pubVars, sideVars>>

\* The host appends a line, and only the first part of it has reached the
\* file.
AppendLineStart ==
    /\ Len(lineInfo) < history + MaxLines
    /\ mainPc # "init"
    /\ ~LinePending
    /\ \E kind \in LineKinds :
          lineInfo' = Append(lineInfo, kind)
    /\ files' = [files EXCEPT ![pathFile] =
                    @ \o LineHead(Len(lineInfo) + 1)]
    /\ NotifyModify
    /\ UNCHANGED <<pathFile, history, nRot, nOther, readerVars, registryVars,
                   threadVars>>
    /\ UNCHANGED <<pubVars, sideVars>>

\* The rest of the line reaches the file.
AppendLineEnd ==
    /\ LinePending
    /\ files' = [files EXCEPT ![pathFile] = @ \o LineRest(Len(lineInfo))]
    /\ NotifyModify
    /\ UNCHANGED <<pathFile, lineInfo, history, nRot, nOther, readerVars,
                   registryVars, threadVars>>
    /\ UNCHANGED <<pubVars, sideVars>>

\* Something else happens in the watched directory: a notification for
\* another path, or of a kind other than create and data-modify.
OtherEvent ==
    /\ Watching
    /\ nOther < MaxOther
    /\ Len(events) < MaxEvents
    /\ nOther' = nOther + 1
    /\ events' = Append(events, "other")
    /\ UNCHANGED <<fsVars, readerVars, registryVars, threadVars>>
    /\ UNCHANGED <<pubVars, sideVars>>

\* Rotation: the log file is moved away and a new, empty file is created at
\* its path; the watcher reports the creation.
RotateReplace ==
    /\ nRot < MaxRotations
    /\ mainPc # "init"
    /\ ~LinePending
    /\ nRot' = nRot + 1
    /\ pathFile' = pathFile + 1
    /\ events' = IF Watching THEN Append(events, "create") ELSE events
    /\ UNCHANGED <<files, lineInfo, history, nOther, readerVars, registryVars,
                   threadVars>>
    /\ UNCHANGED <<pubVars, sideVars>>

\* Rotation: the log file is truncated in place; no file is created.
RotateTruncate ==
    /\ nRot < MaxRotations
    /\ mainPc # "init"
    /\ files[pathFile] # <<>>
    /\ ~LinePending
    /\ nRot' = nRot + 1
    /\ files' = [files EXCEPT ![pathFile] = <<>>]
    /\ NotifyModify
    /\ UNCHANGED <<pathFile, lineInfo, history, nOther, readerVars,
                   registryVars, threadVars>>
    /\ UNCHANGED <<pubVars, sideVars>>

\* ---- LogObserver::new ----

\* new(): spawn the background thread and wait on initialized_receiver.
NewObserver ==
    /\ mainPc = "init"
    /\ mainPc' = "waiting"
    /\ bpc' = "spawned"
    /\ UNCHANGED <<fsVars, events, nOther, readerVars, registryVars, bafter,
                   positioned, observerHeld>>
    /\ UNCHANGED <<pubVars, sideVars>>

\* observe_log: recommended_watcher(..).unwrap(), watcher.watch(..).unwrap()
StartWatch ==
    /\ bpc = "spawned"
    /\ bpc' = "watching"
    /\ UNCHANGED <<fsVars, events, nOther, readerVars, registryVars, mainPc,
                   bafter, positioned, observerHeld>>
    /\ UNCHANGED <<pubVars, sideVars>>

\* observe_log: File::open(..).unwrap(), seek(SeekFrom::End(0)).unwrap(),
\* initialized_sender.send(()), then the first continue_to_read_file
OpenAndSeek ==
    /\ bpc = "watching"
    /\ readerFile' = pathFile
    /\ readerPos' = Len(files[pathFile])
    /\ positioned' = TRUE
    /\ bpc' = "reading"
    /\ bafter' = "loop"
    /\ UNCHANGED <<fsVars, events, nOther, registryVars, mainPc, observerHeld>>
    /\ UNCHANGED <<pubVars, sideVars>>

\* observe_log: one of the unwraps of the start-up panics (the watcher
\* cannot be created, the file cannot be opened); initialized_sender is
\* dropped without a send.
StartupPanic ==
    /\ bpc \in {"spawned", "watching"}
    /\ bpc' = "panicked"
    /\ UNCHANGED <<fsVars, events, nOther, readerVars, registryVars, mainPc,
                   bafter, positioned, observerHeld>>
    /\ UNCHANGED <<pubVars, sideVars>>

\* new(): `let _ = initialized_receiver.recv();` returns when the signal was
\* sent, and also when the sender was dropped
NewReturns ==
    /\ mainPc = "waiting"
    /\ positioned \/ bpc = "panicked"
    /\ mainPc' = "returned"
    /\ UNCHANGED <<fsVars, events, nOther, readerVars, registryVars, bpc,
                   bafter, positioned, observerHeld>>
    /\ UNCHANGED <<pubVars, sideVars>>

\* ---- the registries ----

Register(l, name) ==
    /\ nListeners' = l
    /\ alive' = alive \cup {l}
    /\ lname' = [lname EXCEPT ![l] = name]
    /\ regProcessed' = [regProcessed EXCEPT ![l] = Len(processedLog)]
    /\ regLines' = [regLines EXCEPT ![l] =
                        IF LinePending THEN Len(lineInfo) - 1
                        ELSE Len(lineInfo)]
    /\ early' = IF Len(lineInfo) = history THEN early \cup {l} ELSE early

\* add_listener
AddListener ==
    /\ ObserverUsable
    /\ nListeners < MaxListeners
    /\ Register(nListeners + 1, "*")
    /\ listeners' = Append(listeners, nListeners + 1)
    /\ UNCHANGED <<fsVars, events, nOther, readerVars, threadVars, named,
                   loadedListeners, inbox, ackInbox, processedLog>>
    /\ UNCHANGED <<pubVars, sideVars>>

\* add_named_listener
AddNamedListener(name) ==
    /\ ObserverUsable
    /\ nListeners < MaxListeners
    /\ Register(nListeners + 1, name)
    /\ named' = [n \in (DOMAIN named) \cup {name} |->
                    IF n = name
                    THEN Append(NamedSenders(named, name), nListeners + 1)
                    ELSE named[n]]
    /\ UNCHANGED <<fsVars, events, nOther, readerVars, threadVars, listeners,
                   loadedListeners, inbox, ackInbox, processedLog>>
    /\ UNCHANGED <<pubVars, sideVars>>

\* add_loaded_listener (init_loaded_listener registers one per connection)
AddLoadedListener ==
    /\ ObserverUsable
    /\ loadedListeners = 0
    /\ loadedListeners' = 1
    /\ UNCHANGED <<fsVars, events, nOther, readerVars, threadVars, listeners,
                   named, alive, inbox, ackInbox, lname, 
                   regProcessed, regLines, early, nListeners, processedLog>>
    /\ UNCHANGED <<pubVars, sideVars>>

\* A subscriber drops its stream: the receiver and the events buffered in the
\* channel are gone; the sender stays in its registry.
DropStream(l) ==
    /\ l \in alive
    /\ alive' = alive \ {l}
    /\ inbox' = [inbox EXCEPT ![l] = <<>>]
    /\ regProcessed' = [regProcessed EXCEPT ![l] = 0]
    /\ regLines' = [regLines EXCEPT ![l] = 0]
    /\ early' = early \ {l}
    /\ lname' = [lname EXCEPT ![l] = "*"]
    /\ UNCHANGED <<fsVars, events, nOther, readerVars, threadVars, listeners,
                   named, loadedListeners, ackInbox, nListeners, processedLog>>
    /\ UNCHANGED <<pubVars, sideVars>>

\* ---- the background thread ----

\* Arc::strong_count(&self.listeners): the backend's reference and, until it
\* is dropped, the LogObserver's.
strong_count == IF observerHeld THEN 2 ELSE 1

\* The watch loop goes on while subscribers are registered.
LoopContinues_WhileSubscribers ==
    strong_count > 1 \/ listeners # <<>> \/ DOMAIN named # {}

\* The watch loop goes on only while subscribers are registered.
LoopContinues_OnlyWithSubscribers ==
    strong_count > 1 /\ (listeners # <<>> \/ DOMAIN named # {})

\* while Arc::strong_count(&self.listeners) > 1
LoopContinues == strong_count > 1

\* The loop condition holds: the thread enters recv_timeout.
LoopCheck ==
    /\ bpc = "loop"
    /\ LoopContinues
    /\ bpc' = "recv"
    /\ UNCHANGED <<fsVars, events, nOther, readerVars, registryVars, mainPc,
                   bafter, positioned, observerHeld>>
    /\ UNCHANGED <<pubVars, sideVars>>

\* The loop condition fails: the thread leaves the loop and observe_log
\* returns.
LoopExit ==
    /\ bpc = "loop"
    /\ ~LoopContinues
    /\ bpc' = "done"
    /\ UNCHANGED <<fsVars, events, nOther, readerVars, registryVars, mainPc,
                   bafter, positioned, observerHeld>>
    /\ UNCHANGED <<pubVars, sideVars>>

\* The watch loop receives a notification: update_reader on a create of the
\* log file, continue_to_read_file on a data-modify, nothing otherwise.
RecvEvent ==
    /\ bpc = "recv"
    /\ events # <<>>
    /\ events' = Tail(events)
    /\ bpc' = IF Head(events) = "other" THEN "loop" ELSE "reading"
    /\ bafter' = IF Head(events) = "create" THEN "reopen" ELSE "loop"
    /\ UNCHANGED <<fsVars, nOther, readerVars, registryVars, mainPc,
                   positioned, observerHeld>>
    /\ UNCHANGED <<pubVars, sideVars>>

\* recv_timeout ends with Timeout: continue_to_read_file
RecvTimeout ==
    /\ bpc = "recv"
    /\ events = <<>>
    /\ bpc' = "reading"
    /\ bafter' = "loop"
    /\ UNCHANGED <<fsVars, events, nOther, readerVars, registryVars, mainPc,
                   positioned, observerHeld>>
    /\ UNCHANGED <<pubVars, sideVars>>

\* continue_to_read_file: read_until returned bytes; process them
ReadLine ==
    /\ bpc = "reading"
    /\ read_until(files[readerFile], readerPos) # <<>>
    /\ process_line(read_until(files[readerFile], readerPos))
    /\ readerPos' = readerPos + Len(read_until(files[readerFile], readerPos))
    /\ UNCHANGED <<fsVars, events, nOther, readerFile, threadVars,
                   loadedListeners, alive, lname, regProcessed, regLines, early,
                   nListeners>>
    /\ UNCHANGED <<pubVars, sideVars>>

\* continue_to_read_file: read_until returned 0 bytes; leave the loop
ReadEof ==
    /\ bpc = "reading"
    /\ read_until(files[readerFile], readerPos) = <<>>
    /\ bpc' = bafter
    /\ UNCHANGED <<fsVars, events, nOther, readerVars, registryVars, mainPc,
                   bafter, positioned, observerHeld>>
    /\ UNCHANGED <<pubVars, sideVars>>

\* update_reader: File::open(&self.path) and a new BufReader at offset 0
Reopen ==
    /\ bpc = "reopen"
    /\ readerFile' = pathFile
    /\ readerPos' = 0
    /\ bpc' = "loop"
    /\ UNCHANGED <<fsVars, events, nOther, registryVars, mainPc, bafter,
                   positioned, observerHeld>>
    /\ UNCHANGED <<pubVars, sideVars>>

\* The thread panics inside the loop: recv_timeout reports Disconnected
\* ("File watcher thread crashed!"), or read_until fails and is unwrapped.
RuntimePanic ==
    /\ bpc \in {"recv", "reading"}
    /\ bpc' = "panicked"
    /\ UNCHANGED <<fsVars, events, nOther, readerVars, registryVars, mainPc,
                   bafter, positioned, observerHeld>>
    /\ UNCHANGED <<pubVars, sideVars>>

\* The LogObserver is dropped; the subscription streams stay with their
\* owners.
DropObserver ==
    /\ ObserverUsable
    /\ observerHeld' = FALSE
    /\ UNCHANGED <<fsVars, events, nOther, readerVars, registryVars, mainPc,
                   bpc, bafter, positioned>>
    /\ UNCHANGED <<pubVars, sideVars>>

\* The loop of observe_log while the path keeps naming the same file.
ReaderNext == LoopCheck \/ RecvEvent \/ RecvTimeout \/ ReadLine \/ ReadEof

BackendNext == ReaderNext \/ Reopen

\* ---- initial states ----

\* The bytes of the lines 1 .. h.
RECURSIVE SeededBytes(_)
SeededBytes(h) == IF h = 0 THEN <<>> ELSE SeededBytes(h - 1) \o LineBytes(h)

\* A log file that holds `h` lines.
SeededLog(h) ==
    /\ history = h
    /\ lineInfo = [k \in 1 .. h |-> [exec |-> "a", ok |-> TRUE]]
    /\ pathFile = 1
    /\ files = [f \in FileIds |->
                  IF f = 1 THEN SeededBytes(h) ELSE <<>>]

NoSubscribers ==
    /\ listeners = <<>>
    /\ named = <<>>
    /\ loadedListeners = 0
    /\ alive = {}
    /\ inbox = [l \in ListenerIds |-> <<>>]
    /\ ackInbox = <<>>
    /\ lname = [l \in ListenerIds |-> "*"]
    /\ regProcessed = [l \in ListenerIds |-> 0]
    /\ regLines = [l \in ListenerIds |-> 0]
    /\ early = {}
    /\ nListeners = 0
    /\ processedLog = <<>>

\* Before LogObserver::new is called.
InitNew ==
    /\ \E h \in 0 .. MaxHistory : SeededLog(h)
    /\ NoSubscribers
    /\ events = <<>>
    /\ nOther = 0
    /\ nRot = 0
    /\ mainPc = "init"
    /\ bpc = "not_started"
    /\ bafter = "loop"
    /\ positioned = FALSE
    /\ readerFile = 1
    /\ readerPos = 0
    /\ observerHeld = TRUE

\* After LogObserver::new returned on a pre-seeded log file: the reader is
\* at the end of the file and the thread enters continue_to_read_file.
InitObs ==
    /\ SeededLog(MaxHistory)
    /\ NoSubscribers
    /\ events = <<>>
    /\ nOther = 0
    /\ nRot = 0
    /\ mainPc = "returned"
    /\ bpc = "reading"
    /\ bafter = "loop"
    /\ positioned = TRUE
    /\ readerFile = 1
    /\ readerPos = Len(files[1])
    /\ observerHeld = TRUE

(***************************************************************************)
(* The placement engine of src/src/structure/placement.rs                  *)
(***************************************************************************)

\* Longest command chain given to place_commands.
MaxChain == 5

Direction3 == {"East", "West", "Up", "Down", "South", "North"}

Add3(a, b) == <<a[1] + b[1], a[2] + b[2], a[3] + b[3]>>

Sub3(a, b) == <<a[1] - b[1], a[2] - b[2], a[3] - b[3]>>

\* TryFrom<Coordinate3<S>> for Direction3; "Err" is Err(()).
TryFrom(value) ==
    LET count == Cardinality({k \in 1 .. 3 : value[k] > 0})
                 + Cardinality({k \in 1 .. 3 : value[k] < 0})
    IN  IF count # 1 THEN "Err"
        ELSE IF value[1] > 0 THEN "East"
        ELSE IF value[1] < 0 THEN "West"
        ELSE IF value[2] > 0 THEN "Up"
        ELSE IF value[2] < 0 THEN "Down"
        ELSE IF value[3] > 0 THEN "South"
        ELSE "North"

Max(a, b) == IF a >= b THEN a ELSE b

\* max_cond_len: the loop over the chain from command i on, with the locals
\* max_cond_len (m) and cond_len (c).
RECURSIVE MaxCondLenFrom(_, _, _, _)
MaxCondLenFrom(ch, i, m, c) ==
    IF i > Len(ch) THEN Max(m, c)
    ELSE IF ch[i] THEN MaxCondLenFrom(ch, i + 1, m, c + 1)
    ELSE MaxCondLenFrom(ch, i + 1, Max(m, c), c)

\* The loop never resets cond_len: the source reads
\*     if command.is_conditional() { cond_len += 1; }
\*     else { max_cond_len = max(max_cond_len, cond_len); }
max_cond_len(ch) == MaxCondLenFrom(ch, 1, 0, 0)

\* (len as f32).cbrt().ceil() as usize
CbrtCeil(n) ==
    CHOOSE s \in 0 .. n : s * s * s >= n /\ (s = 0 \/ (s - 1) * (s - 1) * (s - 1) < n)

min_prim_size_Tight(ch) == max_cond_len(ch) + 1

\* QuaterSpiralCurve::next turning on the diagonal at odd instead of even
\* coordinates.
QuaterSpiralStep_OddDiagonal(current) ==
    IF current[1] > current[2] \/ (current[1] = current[2] /\ current[1] % 2 = 1)
    THEN IF current[1] % 2 = 1 THEN <<current[1], current[2] + 1>>
         ELSE IF current[2] = 0 THEN <<current[1] + 1, current[2]>>
         ELSE <<current[1], current[2] - 1>>
    ELSE IF current[2] % 2 = 0 THEN <<current[1] + 1, current[2]>>
         ELSE IF current[1] = 0 THEN <<current[1], current[2] + 1>>
         ELSE <<current[1] - 1, current[2]>>

min_prim_size(ch) == max_cond_len(ch) + 2

prim_size(ch) == Max(min_prim_size(ch), CbrtCeil(Len(ch)))

\* QuaterSpiralCurve::next: the element after `current`.
QuaterSpiralStep(current) ==
    IF current[1] > current[2] \/ (current[1] = current[2] /\ current[1] % 2 = 0)
    THEN IF current[1] % 2 = 1 THEN <<current[1], current[2] + 1>>
         ELSE IF current[2] = 0 THEN <<current[1] + 1, current[2]>>
         ELSE <<current[1], current[2] - 1>>
    ELSE IF current[2] % 2 = 0 THEN <<current[1] + 1, current[2]>>
         ELSE IF current[1] = 0 THEN <<current[1], current[2] + 1>>
         ELSE <<current[1] - 1, current[2]>>

\* Element n (from 0) of QuaterSpiralCurve::new().
RECURSIVE QuaterSpiralCurve(_)
QuaterSpiralCurve(n) ==
    IF n = 0 THEN <<0, 0>> ELSE QuaterSpiralStep(QuaterSpiralCurve(n - 1))

\* The flat_map of `curve`: cell y of the column that stands on the item
\* xz of the spiral; the column is walked forwards or backwards.
column(xz, y, prim) ==
    LET forwards == (xz[1] % 2 = 0) = (xz[2] % 2 = 0)
    IN  <<xz[1], IF forwards THEN y ELSE prim - 1 - y, xz[2]>>

\* Element `index` of `curve`: column index / prim of the spiral, walked
\* forwards or backwards.
CurveAt(index, prim) ==
    column(QuaterSpiralCurve(index \div prim), index % prim, prim)

\* The closure next_coordinate, called when `index` elements were taken.
next_coordinate(index, prim) ==
    [index |-> index,
     coordinate |-> CurveAt(index, prim),
     direction |-> TryFrom(Sub3(CurveAt(index + 1, prim), CurveAt(index, prim)))]

\* The state of the scan over the reversed chain after command i was
\* scanned.
RECURSIVE ScanState(_, _)
ScanState(ch, i) ==
    IF i > Len(ch) THEN 0
    ELSE IF ch[i] THEN ScanState(ch, i + 1) + 1
    ELSE 0

\* The number the scan pairs command i with.
cond_seq_len(ch, i) ==
    LET len == ScanState(ch, i + 1)
    IN  IF ch[i] THEN len + 1
        ELSE IF len # 0 THEN len + 1
        ELSE 0

NoCoordinate == [index |-> 0, coordinate |-> <<0, 0, 0>>, direction |-> "East"]

Chains == UNION {[1 .. n -> BOOLEAN] : n \in 0 .. MaxChain}

InitPlace ==
    /\ chain \in Chains
    /\ ppc = "loop"
    /\ curveIdx = 0
    /\ cur = NoCoordinate
    /\ pIdx = 1
    /\ noopI = 0
    /\ noopCount = 0
    /\ placed = <<>>

\* place_commands is not being called.
QuietPlace ==
    /\ chain = <<>>
    /\ ppc = "done"
    /\ curveIdx = 0
    /\ cur = NoCoordinate
    /\ pIdx = 1
    /\ noopI = 0
    /\ noopCount = 0
    /\ placed = <<>>

CommandBlock(command, at) ==
    [command |-> command, coordinate |-> at.coordinate, direction |-> at.direction]

\* One pass of the for loop for a command that needs no no-op cells, or the
\* start of a pass that needs them.  Direction3::try_from(..).unwrap()
\* panics on Err.
PlaceCommand ==
    /\ ppc = "loop"
    /\ pIdx <= Len(chain)
    /\ LET at == next_coordinate(curveIdx, prim_size(chain))
           len == cond_seq_len(chain, pIdx)
           space_until_corner == prim_size(chain) - 1 - (at.index % prim_size(chain))
       IN  /\ curveIdx' = curveIdx + 1
           /\ IF at.direction = "Err"
              THEN /\ ppc' = "panicked"
                   /\ UNCHANGED <<cur, pIdx, noopI, noopCount, placed>>
              ELSE IF len # 0 /\ len > space_until_corner
              THEN /\ ppc' = "noop"
                   /\ cur' = at
                   /\ noopI' = 0
                   /\ noopCount' = space_until_corner + 1
                   /\ UNCHANGED <<pIdx, placed>>
              ELSE /\ placed' = Append(placed, CommandBlock(pIdx, at))
                   /\ pIdx' = pIdx + 1
                   /\ UNCHANGED <<ppc, cur, noopI, noopCount>>
    /\ UNCHANGED chain
    /\ UNCHANGED <<pubVars, obsVars, blockVars, orientVars, lockVars, unitVars>>

\* One pass of the while loop: a cell without a command.
InsertNoOp ==
    /\ ppc = "noop"
    /\ noopI < noopCount
    /\ LET at == next_coordinate(curveIdx, prim_size(chain))
       IN  /\ noopI' = noopI + 1
           /\ placed' = Append(placed, CommandBlock(0, cur))
           /\ curveIdx' = curveIdx + 1
           /\ cur' = at
           /\ ppc' = IF at.direction = "Err" THEN "panicked" ELSE "noop"
    /\ UNCHANGED <<chain, pIdx, noopCount>>
    /\ UNCHANGED <<pubVars, obsVars, blockVars, orientVars, lockVars, unitVars>>

\* The end of a pass that inserted no-op cells.
PlaceAfterNoOps ==
    /\ ppc = "noop"
    /\ noopI = noopCount
    /\ placed' = Append(placed, CommandBlock(pIdx, cur))
    /\ pIdx' = pIdx + 1
    /\ ppc' = "loop"
    /\ UNCHANGED <<chain, curveIdx, cur, noopI, noopCount>>
    /\ UNCHANGED <<pubVars, obsVars, blockVars, orientVars, lockVars, unitVars>>

PlaceReturn ==
    /\ ppc = "loop"
    /\ pIdx > Len(chain)
    /\ ppc' = "done"
    /\ UNCHANGED <<chain, curveIdx, cur, pIdx, noopI, noopCount, placed>>
    /\ UNCHANGED <<pubVars, obsVars, blockVars, orientVars, lockVars, unitVars>>

NextPlace ==
    \/ PlaceCommand
    \/ InsertNoOp
    \/ PlaceAfterNoOps
    \/ PlaceReturn

(***************************************************************************)
(* Directions and orientations of src/src/geometry3.rs                     *)
(***************************************************************************)

\* Largest absolute value of a component of a coordinate that is oriented.
MaxCoord == 3

\* Direction3::axis, as the index of the component of a Coordinate3.
axis(d) ==
    CASE d = "East" -> 1
      [] d = "West" -> 1
      [] d = "Up" -> 2
      [] d = "Down" -> 2
      [] d = "South" -> 3
      [] d = "North" -> 3

is_positive(d) ==
    CASE d = "East" -> TRUE
      [] d = "West" -> FALSE
      [] d = "Up" -> TRUE
      [] d = "Down" -> FALSE
      [] d = "South" -> TRUE
      [] d = "North" -> FALSE

is_negative(d) == ~is_positive(d)

\* Direction3::as_coordinate(1, 0)
as_coordinate(d) ==
    CASE d = "East" -> <<1, 0, 0>>
      [] d = "West" -> <<-1, 0, 0>>
      [] d = "Up" -> <<0, 1, 0>>
      [] d = "Down" -> <<0, -1, 0>>
      [] d = "South" -> <<0, 0, 1>>
      [] d = "North" -> <<0, 0, -1>>

\* Neg for Direction3
NegDirection(d) ==
    CASE d = "East" -> "West"
      [] d = "West" -> "East"
      [] d = "Up" -> "Down"
      [] d = "Down" -> "Up"
      [] d = "South" -> "North"
      [] d = "North" -> "South"

Orientation3 ==
    {"XYZ", "XYz", "XZY", "XZy", "XyZ", "Xyz", "XzY", "Xzy",
     "YXZ", "YXz", "YZX", "YZx", "YxZ", "Yxz", "YzX", "Yzx",
     "ZXY", "ZXy", "ZYX", "ZYx", "ZxY", "Zxy", "ZyX", "Zyx",
     "xYZ", "xYz", "xZY", "xZy", "xyZ", "xyz", "xzY", "xzy",
     "yXZ", "yXz", "yZX", "yZx", "yxZ", "yxz", "yzX", "yzx",
     "zXY", "zXy", "zYX", "zYx", "zxY", "zxy", "zyX", "zyx"}

\* An inverse that takes every orientation for its own inverse.
inverse_Self(o) == o

inverse(o) ==
    CASE o = "XYZ" -> "XYZ"
      [] o = "XYz" -> "XYz"
      [] o = "XZY" -> "XZY"
      [] o = "XZy" -> "XzY"
      [] o = "XyZ" -> "XyZ"
      [] o = "Xyz" -> "Xyz"
      [] o = "XzY" -> "XZy"
      [] o = "Xzy" -> "Xzy"
      [] o = "YXZ" -> "YXZ"
      [] o = "YXz" -> "YXz"
      [] o = "YZX" -> "ZXY"
      [] o = "YZx" -> "zXY"
      [] o = "YxZ" -> "yXZ"
      [] o = "Yxz" -> "yXz"
      [] o = "YzX" -> "ZXy"
      [] o = "Yzx" -> "zXy"
      [] o = "ZXY" -> "YZX"
      [] o = "ZXy" -> "YzX"
      [] o = "ZYX" -> "ZYX"
      [] o = "ZYx" -> "zYX"
      [] o = "ZxY" -> "yZX"
      [] o = "Zxy" -> "yzX"
      [] o = "ZyX" -> "ZyX"
      [] o = "Zyx" -> "zyX"
      [] o = "xYZ" -> "xYZ"
      [] o = "xYz" -> "xYz"
      [] o = "xZY" -> "xZY"
      [] o = "xZy" -> "xzY"
      [] o = "xyZ" -> "xyZ"
      [] o = "xyz" -> "xyz"
      [] o = "xzY" -> "xZy"
      [] o = "xzy" -> "xzy"
      [] o = "yXZ" -> "YxZ"
      [] o = "yXz" -> "Yxz"
      [] o = "yZX" -> "ZxY"
      [] o = "yZx" -> "zxY"
      [] o = "yxZ" -> "yxZ"
      [] o = "yxz" -> "yxz"
      [] o = "yzX" -> "Zxy"
      [] o = "yzx" -> "zxy"
      [] o = "zXY" -> "YZx"
      [] o = "zXy" -> "Yzx"
      [] o = "zYX" -> "ZYx"
      [] o = "zYx" -> "zYx"
      [] o = "zxY" -> "yZx"
      [] o = "zxy" -> "yzx"
      [] o = "zyX" -> "Zyx"
      [] o = "zyx" -> "zyx"

direction1(o) ==
    CASE o = "XYZ" -> "East"
      [] o = "XYz" -> "East"
      [] o = "XZY" -> "East"
      [] o = "XZy" -> "East"
      [] o = "XyZ" -> "East"
      [] o = "Xyz" -> "East"
      [] o = "XzY" -> "East"
      [] o = "Xzy" -> "East"
      [] o = "YXZ" -> "Up"
      [] o = "YXz" -> "Up"
      [] o = "YZX" -> "Up"
      [] o = "YZx" -> "Up"
      [] o = "YxZ" -> "Up"
      [] o = "Yxz" -> "Up"
      [] o = "YzX" -> "Up"
      [] o = "Yzx" -> "Up"
      [] o = "ZXY" -> "South"
      [] o = "ZXy" -> "South"
      [] o = "ZYX" -> "South"
      [] o = "ZYx" -> "South"
      [] o = "ZxY" -> "South"
      [] o = "Zxy" -> "South"
      [] o = "ZyX" -> "South"
      [] o = "Zyx" -> "South"
      [] o = "xYZ" -> "West"
      [] o = "xYz" -> "West"
      [] o = "xZY" -> "West"
      [] o = "xZy" -> "West"
      [] o = "xyZ" -> "West"
      [] o = "xyz" -> "West"
      [] o = "xzY" -> "West"
      [] o = "xzy" -> "West"
      [] o = "yXZ" -> "Down"
      [] o = "yXz" -> "Down"
      [] o = "yZX" -> "Down"
      [] o = "yZx" -> "Down"
      [] o = "yxZ" -> "Down"
      [] o = "yxz" -> "Down"
      [] o = "yzX" -> "Down"
      [] o = "yzx" -> "Down"
      [] o = "zXY" -> "North"
      [] o = "zXy" -> "North"
      [] o = "zYX" -> "North"
      [] o = "zYx" -> "North"
      [] o = "zxY" -> "North"
      [] o = "zxy" -> "North"
      [] o = "zyX" -> "North"
      [] o = "zyx" -> "North"

direction2(o) ==
    CASE o = "XYZ" -> "Up"
      [] o = "XYz" -> "Up"
      [] o = "XZY" -> "South"
      [] o = "XZy" -> "South"
      [] o = "XyZ" -> "Down"
      [] o = "Xyz" -> "Down"
      [] o = "XzY" -> "North"
      [] o = "Xzy" -> "North"
      [] o = "YXZ" -> "East"
      [] o = "YXz" -> "East"
      [] o = "YZX" -> "South"
      [] o = "YZx" -> "South"
      [] o = "YxZ" -> "West"
      [] o = "Yxz" -> "West"
      [] o = "YzX" -> "North"
      [] o = "Yzx" -> "North"
      [] o = "ZXY" -> "East"
      [] o = "ZXy" -> "East"
      [] o = "ZYX" -> "Up"
      [] o = "ZYx" -> "Up"
      [] o = "ZxY" -> "West"
      [] o = "Zxy" -> "West"
      [] o = "ZyX" -> "Down"
      [] o = "Zyx" -> "Down"
      [] o = "xYZ" -> "Up"
      [] o = "xYz" -> "Up"
      [] o = "xZY" -> "South"
      [] o = "xZy" -> "South"
      [] o = "xyZ" -> "Down"
      [] o = "xyz" -> "Down"
      [] o = "xzY" -> "North"
      [] o = "xzy" -> "North"
      [] o = "yXZ" -> "East"
      [] o = "yXz" -> "East"
      [] o = "yZX" -> "South"
      [] o = "yZx" -> "South"
      [] o = "yxZ" -> "West"
      [] o = "yxz" -> "West"
      [] o = "yzX" -> "North"
      [] o = "yzx" -> "North"
      [] o = "zXY" -> "East"
      [] o = "zXy" -> "East"
      [] o = "zYX" -> "Up"
      [] o = "zYx" -> "Up"
      [] o = "zxY" -> "West"
      [] o = "zxy" -> "West"
      [] o = "zyX" -> "Down"
      [] o = "zyx" -> "Down"

direction3(o) ==
    CASE o = "XYZ" -> "South"
      [] o = "XYz" -> "North"
      [] o = "XZY" -> "Up"
      [] o = "XZy" -> "Down"
      [] o = "XyZ" -> "South"
      [] o = "Xyz" -> "North"
      [] o = "XzY" -> "Up"
      [] o = "Xzy" -> "Down"
      [] o = "YXZ" -> "South"
      [] o = "YXz" -> "North"
      [] o = "YZX" -> "East"
      [] o = "YZx" -> "West"
      [] o = "YxZ" -> "South"
      [] o = "Yxz" -> "North"
      [] o = "YzX" -> "East"
      [] o = "Yzx" -> "West"
      [] o = "ZXY" -> "Up"
      [] o = "ZXy" -> "Down"
      [] o = "ZYX" -> "East"
      [] o = "ZYx" -> "West"
      [] o = "ZxY" -> "Up"
      [] o = "Zxy" -> "Down"
      [] o = "ZyX" -> "East"
      [] o = "Zyx" -> "West"
      [] o = "xYZ" -> "South"
      [] o = "xYz" -> "North"
      [] o = "xZY" -> "Up"
      [] o = "xZy" -> "Down"
      [] o = "xyZ" -> "South"
      [] o = "xyz" -> "North"
      [] o = "xzY" -> "Up"
      [] o = "xzy" -> "Down"
      [] o = "yXZ" -> "South"
      [] o = "yXz" -> "North"
      [] o = "yZX" -> "East"
      [] o = "yZx" -> "West"
      [] o = "yxZ" -> "South"
      [] o = "yxz" -> "North"
      [] o = "yzX" -> "East"
      [] o = "yzx" -> "West"
      [] o = "zXY" -> "Up"
      [] o = "zXy" -> "Down"
      [] o = "zYX" -> "East"
      [] o = "zYx" -> "West"
      [] o = "zxY" -> "Up"
      [] o = "zxy" -> "Down"
      [] o = "zyX" -> "East"
      [] o = "zyx" -> "West"

\* orient_coordinate: the three components, negated where the direction is
\* negative, are written to the axes of the three directions in turn.
orient_coordinate(o, c) ==
    LET t1 == IF is_negative(direction1(o)) THEN -c[1] ELSE c[1]
        t2 == IF is_negative(direction2(o)) THEN -c[2] ELSE c[2]
        t3 == IF is_negative(direction3(o)) THEN -c[3] ELSE c[3]
        r1 == [c EXCEPT ![axis(direction1(o))] = t1]
        r2 == [r1 EXCEPT ![axis(direction2(o))] = t2]
    IN  [r2 EXCEPT ![axis(direction3(o))] = t3]

orient_direction(o, d) ==
    LET target_direction ==
            CASE axis(d) = 1 -> direction1(o)
              [] axis(d) = 2 -> direction2(o)
              [] axis(d) = 3 -> direction3(o)
    IN  IF is_positive(d) THEN target_direction ELSE NegDirection(target_direction)

Coordinates ==
    {<<x, y, z>> : x \in -MaxCoord .. MaxCoord, y \in -MaxCoord .. MaxCoord,
                   z \in -MaxCoord .. MaxCoord}

\* test_inverse, for every orientation and coordinate.
InitOrient ==
    /\ orientation \in Orientation3
    /\ given \in Coordinates
    /\ opc = "given"
    /\ actual = given
    /\ inverted = orientation
    /\ nInverse = 0

\* No coordinate is being oriented.
QuietOrient ==
    /\ orientation = "XYZ"
    /\ given = <<0, 0, 0>>
    /\ opc = "restored"
    /\ actual = <<0, 0, 0>>
    /\ inverted = "XYZ"
    /\ nInverse = 2

\* orientation.orient_coordinate(coordinate)
OrientCoordinate ==
    /\ opc = "given"
    /\ actual' = orient_coordinate(orientation, actual)
    /\ opc' = "oriented"
    /\ UNCHANGED <<orientation, given, inverted, nInverse>>
    /\ UNCHANGED <<pubVars, obsVars, placeVars, blockVars, lockVars, unitVars>>

\* inverse.orient_coordinate(..)
OrientByInverse ==
    /\ opc = "oriented"
    /\ actual' = orient_coordinate(inverse(orientation), actual)
    /\ opc' = "restored"
    /\ UNCHANGED <<orientation, given, inverted, nInverse>>
    /\ UNCHANGED <<pubVars, obsVars, placeVars, blockVars, lockVars, unitVars>>

\* .inverse() applied to the orientation once more
Inverse ==
    /\ nInverse < 2
    /\ inverted' = inverse(inverted)
    /\ nInverse' = nInverse + 1
    /\ UNCHANGED <<orientation, given, opc, actual>>
    /\ UNCHANGED <<pubVars, obsVars, placeVars, blockVars, lockVars, unitVars>>

NextOrient ==
    \/ OrientCoordinate
    \/ OrientByInverse
    \/ Inverse

(***************************************************************************)
(* The placement engine of src/src/placement.rs                            *)
(***************************************************************************)

\* Most commands given to execute_commands in one call.
MaxCommands == 10

CMD_BLOCK_OFFSET == <<0, 0, 8>>

\* The cuboid of the host: 16 x 255 x 8 in the source, scaled down.
MAX_SIZE == <<2, 3, 2>>

MAX_LEN == MAX_SIZE[1] * MAX_SIZE[2] * MAX_SIZE[3]

CURVE_ORIENTATION == "XZY"

Command(name, n) == [name |-> name, n |-> n]

first_cmds(enable_logging_automatically) ==
    <<Command("enable_logging", 0), Command("loaded", 0)>>
        \o (IF ~enable_logging_automatically
            THEN <<Command("reset_logging", 0)>> ELSE <<>>)

last_cmds(enable_logging_automatically) ==
    IF enable_logging_automatically THEN <<Command("reset_logging", 0)>> ELSE <<>>

\* commands_len of add_implicit_commands counts first_cmds and the commands
\* of the caller, and leaves last_cmds out.
commands_len(n, enable_logging_automatically) ==
    Len(first_cmds(enable_logging_automatically)) + n

\* The iterator add_implicit_commands returns for n commands of the caller.
implicit_commands(n, enable_logging_automatically) ==
    first_cmds(enable_logging_automatically)
        \o [k \in 1 .. n |-> Command("user", k)]
        \o last_cmds(enable_logging_automatically)

None3 == [some |-> FALSE, at |-> <<0, 0, 0>>]

Some3(c) == [some |-> TRUE, at |-> c]

\* direction_in_cuboid_curve turning the rows by the parity of y alone.
direction_in_cuboid_curve_RowParityOnly(current, size) ==
    LET forward0 == current[2] % 2 = 0
        limit0 == IF forward0 THEN size[1] - 1 ELSE 0
        forward1 == current[3] % 2 = 0
        limit1 == IF forward1 THEN size[2] - 1 ELSE 0
    IN  IF current[1] # limit0 THEN (IF forward0 THEN "East" ELSE "West")
        ELSE IF current[2] # limit1 THEN (IF forward1 THEN "Up" ELSE "Down")
        ELSE IF current[3] # size[3] - 1 THEN "South"
        ELSE "None"

\* direction_in_cuboid_curve; "None" is None.
direction_in_cuboid_curve(current, size) ==
    LET forward0 == (current[2] % 2 = 0) = (current[3] % 2 = 0)
        max0 == size[1] - 1
        limit0 == IF forward0 THEN max0 ELSE 0
        forward1 == current[3] % 2 = 0
        max1 == size[2] - 1
        limit1 == IF forward1 THEN max1 ELSE 0
        max2 == size[3] - 1
        limit2 == max2
    IN  IF current[1] # limit0 THEN (IF forward0 THEN "East" ELSE "West")
        ELSE IF current[2] # limit1 THEN (IF forward1 THEN "Up" ELSE "Down")
        ELSE IF current[3] # limit2 THEN "South"
        ELSE "None"

\* let max_size = CURVE_ORIENTATION.inverse().orient_coordinate(MAX_SIZE)
max_size == orient_coordinate(inverse(CURVE_ORIENTATION), MAX_SIZE)

\* The kind of the command block at a coordinate of the oriented curve.
CommandBlockKind_ByLayer(coordinate) ==
    IF coordinate[2] = 0 THEN "Impulse" ELSE "Chain"

CommandBlockKind(coordinate) ==
    LET first == coordinate = <<0, 0, 0>>
    IN  IF first THEN "Impulse" ELSE "Chain"

new_command_block(kind, command, facing, pos) ==
    [kind |-> kind, command |-> command, facing |-> facing, pos |-> pos]

InitBlocks ==
    /\ \E n \in 0 .. MaxCommands, auto \in BOOLEAN :
          /\ gCmds = implicit_commands(n, auto)
          /\ gLen = commands_len(n, auto)
    /\ gpc = "start"
    /\ gWarned = <<>>
    /\ gCurve = None3
    /\ gTaken = 0
    /\ gBlocks = <<>>

\* generate_command_blocks is not being called.
QuietBlocks ==
    /\ gCmds = <<>>
    /\ gLen = 0
    /\ gpc = "done"
    /\ gWarned = <<>>
    /\ gCurve = None3
    /\ gTaken = 0
    /\ gBlocks = <<>>

\* The head of generate_command_blocks: the warning, and CuboidCurve::new.
GenerateCommandBlocks ==
    /\ gpc = "start"
    /\ gWarned' = IF gLen > MAX_LEN
                  THEN <<[commands_len |-> gLen, max_len |-> MAX_LEN]>>
                  ELSE <<>>
    /\ gCurve' = Some3(<<0, 0, 0>>)
    /\ gpc' = "zip"
    /\ UNCHANGED <<gCmds, gLen, gTaken, gBlocks>>
    /\ UNCHANGED <<pubVars, obsVars, placeVars, orientVars, lockVars, unitVars>>

\* One element of commands.zip(curve) mapped to a command block:
\* commands.next() and CuboidCurve::next both return Some.
ZipNext ==
    /\ gpc = "zip"
    /\ gTaken < Len(gCmds)
    /\ gCurve.some
    /\ LET current == gCurve.at
           direction == direction_in_cuboid_curve(current, max_size)
       IN  /\ direction # "None"
           /\ gCurve' = Some3(Add3(current, as_coordinate(direction)))
           /\ gBlocks' = Append(gBlocks,
                  new_command_block(
                      CommandBlockKind(orient_coordinate(CURVE_ORIENTATION, current)),
                      gCmds[gTaken + 1],
                      orient_direction(CURVE_ORIENTATION, direction),
                      Add3(orient_coordinate(CURVE_ORIENTATION, current),
                           CMD_BLOCK_OFFSET)))
    /\ gTaken' = gTaken + 1
    /\ UNCHANGED <<gCmds, gLen, gpc, gWarned>>
    /\ UNCHANGED <<pubVars, obsVars, placeVars, orientVars, lockVars, unitVars>>

\* commands.next() returns Some and CuboidCurve::next returns None at the
\* last corner: the zip ends and the command taken is dropped.
ZipCurveEnd ==
    /\ gpc = "zip"
    /\ gTaken < Len(gCmds)
    /\ \/ ~gCurve.some
       \/ direction_in_cuboid_curve(gCurve.at, max_size) = "None"
    /\ gCurve' = None3
    /\ gTaken' = gTaken + 1
    /\ gpc' = "done"
    /\ UNCHANGED <<gCmds, gLen, gWarned, gBlocks>>
    /\ UNCHANGED <<pubVars, obsVars, placeVars, orientVars, lockVars, unitVars>>

\* commands.next() returns None.
ZipEnd ==
    /\ gpc = "zip"
    /\ gTaken = Len(gCmds)
    /\ gpc' = "done"
    /\ UNCHANGED <<gCmds, gLen, gWarned, gCurve, gTaken, gBlocks>>
    /\ UNCHANGED <<pubVars, obsVars, placeVars, orientVars, lockVars, unitVars>>

NextBlocks ==
    \/ GenerateCommandBlocks
    \/ ZipNext
    \/ ZipCurveEnd
    \/ ZipEnd

QuietEng == QuietPlace /\ QuietBlocks /\ QuietOrient

(***************************************************************************)
(* QuaterSpiralCurve and the curve of place_commands on their own          *)
(***************************************************************************)

\* Items taken from one QuaterSpiralCurve.
MaxSpiral == 36

\* Largest prim_size of the curve walked.
MaxPrim == 3

\* QuaterSpiralCurve::new, and a prim_size for the curve built on it.
InitSpiral ==
    /\ sPrim \in 1 .. MaxPrim
    /\ sNext = <<0, 0>>
    /\ sItems = <<>>

\* No curve is being walked.
QuietSpiral ==
    /\ sPrim = 1
    /\ sNext = <<0, 0>>
    /\ sItems = <<>>

\* QuaterSpiralCurve::next
SpiralNext ==
    /\ Len(sItems) < MaxSpiral
    /\ sItems' = Append(sItems, sNext)
    /\ sNext' = QuaterSpiralStep(sNext)
    /\ UNCHANGED sPrim
    /\ UNCHANGED spiralRest

NextSpiral == SpiralNext

(***************************************************************************)
(* LogEvent: parsing and formatting a line (src/src/log.rs)                *)
(***************************************************************************)

\* Largest digit of the time fields of the lines tried.
MaxDigit == 2

\* Largest number of blanks after the closing bracket of a line tried.
MaxTrail == 1

\* The characters of the ASCII digits, by value.
DigitChars == <<"0", "1", "2", "3", "4", "5", "6", "7", "8", "9">>

is_ascii_digit(b) == \E d \in 1 .. 10 : DigitChars[d] = b

DigitValue(b) == (CHOOSE d \in 1 .. 10 : DigitChars[d] = b) - 1

\* "] [Server thread/INFO]: ["
ThreadInfix ==
    <<"]", " ", "[", "S", "e", "r", "v", "e", "r", " ", "t", "h", "r", "e",
      "a", "d", "/", "I", "N", "F", "O", "]", ":", " ", "[">>

\* Option<&str>, and Option<(N, &str)> of read_digits
NoStr == [some |-> FALSE, number |-> 0, rest |-> <<>>]

SomeStr(n, s) == [some |-> TRUE, number |-> n, rest |-> s]

strip_prefix(s, p) ==
    IF Len(s) >= Len(p) /\ SubSeq(s, 1, Len(p)) = p
    THEN SomeStr(0, SubSeq(s, Len(p) + 1, Len(s)))
    ELSE NoStr

strip_suffix(s, p) ==
    IF Len(s) >= Len(p) /\ SubSeq(s, Len(s) - Len(p) + 1, Len(s)) = p
    THEN SomeStr(0, SubSeq(s, 1, Len(s) - Len(p)))
    ELSE NoStr

RECURSIVE trim_end_matches(_)
\* str::trim_end: trailing white space removed
trim_end_matches(s) ==
    IF s # <<>> /\ s[Len(s)] = " " THEN trim_end_matches(SubSeq(s, 1, Len(s) - 1)) ELSE s

RECURSIVE ParseDigits(_)
\* str::parse of a string of digits
ParseDigits(s) ==
    IF s = <<>> THEN 0
    ELSE 10 * ParseDigits(SubSeq(s, 1, Len(s) - 1)) + DigitValue(s[Len(s)])

\* read_digits; a u8 holds every number of two digits
read_digits(string, len) ==
    IF Len(string) >= len /\ \A i \in 1 .. len : is_ascii_digit(string[i])
    THEN SomeStr(ParseDigits(SubSeq(string, 1, len)), SubSeq(string, len + 1, Len(string)))
    ELSE NoStr

\* The positions at which ": " starts.
Delimiters(s) == {i \in 1 .. Len(s) - 1 : s[i] = ":" /\ s[i + 1] = " "}

\* Result<LogEvent, ()>
NoEvent ==
    [ok |-> FALSE, hour |-> 0, minute |-> 0, second |-> 0,
     executor |-> <<>>, output |-> <<>>]

\* LogEvent::from_str
LogEvent_from_str(line) ==
    LET l0 == strip_prefix(line, <<"[">>)
        h  == read_digits(l0.rest, 2)
        l1 == strip_prefix(h.rest, <<":">>)
        m  == read_digits(l1.rest, 2)
        l2 == strip_prefix(m.rest, <<":">>)
        s  == read_digits(l2.rest, 2)
        l3 == strip_prefix(s.rest, ThreadInfix)
        l4 == trim_end_matches(l3.rest)
        l5 == strip_suffix(l4, <<"]">>)
        ds == Delimiters(l5.rest)
        at == CHOOSE i \in ds : \A j \in ds : i <= j
    IN  IF ~l0.some \/ ~h.some \/ ~l1.some \/ ~m.some \/ ~l2.some
           \/ ~s.some \/ ~l3.some \/ ~l5.some \/ ds = {}
        THEN NoEvent
        ELSE [ok |-> TRUE, hour |-> h.number, minute |-> m.number,
              second |-> s.number,
              executor |-> SubSeq(l5.rest, 1, at - 1),
              output |-> SubSeq(l5.rest, at + 2, Len(l5.rest))]

\* Display of a u8 by "{}": its decimal digits, no padding
DisplayU8(n) == [i \in 1 .. Len(to_string(n)) |-> DigitChars[to_string(n)[i] + 1]]

\* Display for LogEvent
fmt(event) ==
    <<"[">> \o DisplayU8(event.hour) \o <<":">> \o DisplayU8(event.minute)
        \o <<":">> \o DisplayU8(event.second) \o ThreadInfix
        \o event.executor \o <<":", " ">> \o event.output \o <<"]">>

\* The time fields tried: two digits each.
TimeFields == {<<DigitChars[a + 1], DigitChars[b + 1]>> : a, b \in 0 .. MaxDigit}

\* The executors and outputs tried.
Executors == {<<"t">>, <<"@">>}

Outputs == {<<"o", "k">>, <<"a", ":", " ", "b">>, <<"x", "]">>}

Blanks(n) == [i \in 1 .. n |-> " "]

\* Lines as Minecraft writes them for the output of a command.
CommandLines ==
    {<<"[">> \o h \o <<":">> \o m \o <<":">> \o s \o ThreadInfix
        \o e \o <<":", " ">> \o o \o <<"]">> \o Blanks(t) :
        h \in TimeFields, m \in TimeFields, s \in TimeFields,
        e \in Executors, o \in Outputs, t \in 0 .. MaxTrail}

\* Other lines of a log file.
OtherLines ==
    {<<>>, <<"[", "0", "1", ":", "0", "2", ":", "0", "3", "]", " ", "x">>,
     <<"[", "1", ":", "2", ":", "3">> \o ThreadInfix \o <<"t", ":", " ", "o", "]">>,
     <<"[", "2", "1", ":", "0", "2", ":", "0", "3">> \o ThreadInfix \o <<"t", "]">>}

\* A line to parse.
InitLog ==
    /\ eLine \in CommandLines \cup OtherLines
    /\ eEvent = NoEvent
    /\ eString = <<>>
    /\ eAgain = NoEvent
    /\ epc = "line"

\* No line is being parsed.
QuietLog ==
    /\ eLine = <<>>
    /\ eEvent = NoEvent
    /\ eString = <<>>
    /\ eAgain = NoEvent
    /\ epc = "line"

\* string.parse::<LogEvent>()
ParseLine ==
    /\ epc = "line"
    /\ eEvent' = LogEvent_from_str(eLine)
    /\ epc' = "parsed"
    /\ UNCHANGED <<eLine, eString, eAgain>>
    /\ UNCHANGED logRest

\* actual_event.to_string()
FormatEvent ==
    /\ epc = "parsed"
    /\ eEvent.ok
    /\ eString' = fmt(eEvent)
    /\ epc' = "formatted"
    /\ UNCHANGED <<eLine, eEvent, eAgain>>
    /\ UNCHANGED logRest

\* Parsing the formatted text again.
ParseAgain ==
    /\ epc = "formatted"
    /\ eAgain' = LogEvent_from_str(eString)
    /\ epc' = "reparsed"
    /\ UNCHANGED <<eLine, eEvent, eString>>
    /\ UNCHANGED logRest

NextLog == ParseLine \/ FormatEvent \/ ParseAgain

(***************************************************************************)
(* StructureBuilder (src/src/structure/mod.rs)                             *)
(***************************************************************************)

\* add_block calls on one builder.
MaxBlocks == 3

\* Coordinate3::max
Coordinate3_max(a, b) == <<Max(a[1], b[1]), Max(a[2], b[2]), Max(a[3], b[3])>>

\* The names, properties and positions of the blocks tried. The positions
\* of a structure are not negative.
BlockNames == {"minecraft:command_block", "minecraft:stone"}

BlockProperties == {{}, {<<"facing", "east">>}}

BlockPositions == {<<0, 0, 0>>, <<1, 0, 0>>, <<0, 2, 1>>, <<0, 0, 8>>}

Blocks == [name : BlockNames, pos : BlockPositions, properties : BlockProperties]

\* PaletteBlock { name, properties }
PaletteBlock(block) == [name |-> block.name, properties |-> block.properties]

\* StructureBuilder::add_block pushing a palette entry for every block.
add_block_AlwaysPush(size, palette, blocks, block) ==
    [size |-> Coordinate3_max(size, Add3(block.pos, <<1, 1, 1>>)),
     palette |-> Append(palette, PaletteBlock(block)),
     blocks |-> Append(blocks, [state |-> Len(palette), pos |-> block.pos])]

\* StructureBuilder::add_block; indexes count from 0
add_block(size, palette, blocks, block) ==
    LET palette_block == PaletteBlock(block)
        found == {i \in 1 .. Len(palette) : palette[i] = palette_block}
        index == IF found # {}
                 THEN (CHOOSE i \in found : \A j \in found : i <= j) - 1
                 ELSE Len(palette)
    IN  [size |-> Coordinate3_max(size, Add3(block.pos, <<1, 1, 1>>)),
         palette |-> IF found # {} THEN palette ELSE Append(palette, palette_block),
         blocks |-> Append(blocks, [state |-> index, pos |-> block.pos])]

\* StructureBuilder::new
InitBuilder ==
    /\ bSize = <<0, 0, 0>>
    /\ bPalette = <<>>
    /\ bBlocks = <<>>
    /\ bAdded = <<>>

QuietBuilder == InitBuilder

\* A call of add_block.
AddBlock ==
    /\ Len(bAdded) < MaxBlocks
    /\ \E block \in Blocks :
          LET b == add_block(bSize, bPalette, bBlocks, block)
          IN  /\ bSize' = b.size
              /\ bPalette' = b.palette
              /\ bBlocks' = b.blocks
              /\ bAdded' = Append(bAdded, block)
    /\ UNCHANGED builderRest

NextBuilder == AddBlock

(***************************************************************************)
(* CuboidCurve on its own (src/src/placement.rs)                           *)
(***************************************************************************)

\* Largest extent of the cuboids walked.
MaxExtent == 3

\* The positions of the blocks of generate_basic_structure.
BasicStructurePositions ==
    {<<0, 0, 0>>, <<0, 1, 0>>, <<0, 2, 0>>, <<0, 3, 0>>, <<0, 4, 0>>, <<0, 5, 0>>}

\* CuboidCurve::new
InitCuboid ==
    /\ cSize \in (1 .. MaxExtent) \X (1 .. MaxExtent) \X (1 .. MaxExtent)
    /\ cNext = Some3(<<0, 0, 0>>)
    /\ cItems = <<>>
    /\ cEnded = FALSE

\* No cuboid is being walked.
QuietCuboid ==
    /\ cSize = <<1, 1, 1>>
    /\ cNext = Some3(<<0, 0, 0>>)
    /\ cItems = <<>>
    /\ cEnded = FALSE

\* CuboidCurve::next returns Some((current, direction)).
CuboidNext ==
    /\ ~cEnded
    /\ cNext.some
    /\ LET current == cNext.at
           direction == direction_in_cuboid_curve(current, cSize)
       IN  /\ direction # "None"
           /\ cNext' = Some3(Add3(current, as_coordinate(direction)))
           /\ cItems' = Append(cItems, [coordinate |-> current, direction |-> direction])
    /\ UNCHANGED <<cSize, cEnded>>
    /\ UNCHANGED cuboidRest

\* CuboidCurve::next returns None: at the last corner, where
\* direction_in_cuboid_curve is None, and from then on.
CuboidEnd ==
    /\ ~cEnded
    /\ \/ ~cNext.some
       \/ direction_in_cuboid_curve(cNext.at, cSize) = "None"
    /\ cNext' = None3
    /\ cEnded' = TRUE
    /\ UNCHANGED <<cSize, cItems>>
    /\ UNCHANGED cuboidRest

NextCuboid == CuboidNext \/ CuboidEnd

(***************************************************************************)
(* The observer of src/src/log_observer.rs                                 *)
(***************************************************************************)

\* Senders created for the observer of log_observer.rs.
MaxSenders == 3

SenderIds == 1 .. MaxSenders

\* for (index, listener) in listeners.iter().enumerate(): the indexes whose
\* send fails, in the order of the list.
failed_sends(vec, live) ==
    LET F[k \in 0 .. Len(vec)] ==
            IF k = 0 THEN <<>>
            ELSE IF vec[k] \in live THEN F[k - 1] ELSE Append(F[k - 1], k)
    IN  F[Len(vec)]

\* for delete_index in delete_indexes { listeners.remove(delete_index) }:
\* front to back, every removal shifting the senders behind it; Vec::remove
\* panics for an index that is not in the list.
RECURSIVE remove_each(_, _)
remove_each(vec, indexes) ==
    IF indexes = <<>> THEN [panic |-> FALSE, vec |-> vec]
    ELSE IF Head(indexes) > Len(vec) THEN [panic |-> TRUE, vec |-> vec]
    ELSE remove_each(SubSeq(vec, 1, Head(indexes) - 1)
                        \o SubSeq(vec, Head(indexes) + 1, Len(vec)),
                     Tail(indexes))

\* LogObserver::new of log_observer.rs; the thread is between two lines.
InitOld ==
    /\ qVec = <<>>
    /\ qMap = <<>>
    /\ qAlive = {}
    /\ qNext = 0
    /\ qpc = "idle"
    /\ qExecutor = "a"
    /\ qIdx = <<>>
    /\ qProcessed = 0

QuietOld == InitOld

\* process_line with a line that parses into an event: the sends to the
\* general listeners under the read guard, and drop(listeners).
OldSendToVec ==
    /\ qpc = "idle"
    /\ qProcessed < MaxLines
    /\ \E name \in Names : qExecutor' = name
    /\ qIdx' = failed_sends(qVec, qAlive)
    /\ qpc' = IF failed_sends(qVec, qAlive) # <<>> THEN "vec_write" ELSE "map_read"
    /\ UNCHANGED <<qVec, qMap, qAlive, qNext, qProcessed>>
    /\ UNCHANGED oldRest

\* process_line: the removals under the write guard of listener_vec.
OldRemoveFromVec ==
    /\ qpc = "vec_write"
    /\ IF remove_each(qVec, qIdx).panic
       THEN /\ qpc' = "panicked"
            /\ UNCHANGED qVec
       ELSE /\ qpc' = "map_read"
            /\ qVec' = remove_each(qVec, qIdx).vec
    /\ UNCHANGED <<qMap, qAlive, qNext, qExecutor, qIdx, qProcessed>>
    /\ UNCHANGED oldRest

\* process_line: listeners.get(&event.executor) and the send under the read
\* guard; drop(listeners) after a failed send.
OldSendToNamed ==
    /\ qpc = "map_read"
    /\ IF qExecutor \in DOMAIN qMap /\ qMap[qExecutor] \notin qAlive
       THEN /\ qpc' = "map_write"
            /\ UNCHANGED qProcessed
       ELSE /\ qpc' = "idle"
            /\ qProcessed' = qProcessed + 1
    /\ UNCHANGED <<qVec, qMap, qAlive, qNext, qExecutor, qIdx>>
    /\ UNCHANGED oldRest

\* process_line: listeners.remove(&event.executor) under the write guard.
OldRemoveNamed ==
    /\ qpc = "map_write"
    /\ qMap' = [n \in (DOMAIN qMap) \ {qExecutor} |-> qMap[n]]
    /\ qpc' = "idle"
    /\ qProcessed' = qProcessed + 1
    /\ UNCHANGED <<qVec, qAlive, qNext, qExecutor, qIdx>>
    /\ UNCHANGED oldRest

\* add_general_listener, called by another thread
add_general_listener ==
    /\ qNext < MaxSenders
    /\ qNext' = qNext + 1
    /\ qVec' = Append(qVec, qNext + 1)
    /\ qAlive' = qAlive \cup {qNext + 1}
    /\ UNCHANGED <<qMap, qpc, qExecutor, qIdx, qProcessed>>
    /\ UNCHANGED oldRest

\* add_listener(name), called by another thread: HashMap::insert replaces
\* the sender of the name.
OldAddListener(name) ==
    /\ qNext < MaxSenders
    /\ qNext' = qNext + 1
    /\ qMap' = [n \in (DOMAIN qMap) \cup {name} |->
                   IF n = name THEN qNext + 1 ELSE qMap[n]]
    /\ qAlive' = qAlive \cup {qNext + 1}
    /\ UNCHANGED <<qVec, qpc, qExecutor, qIdx, qProcessed>>
    /\ UNCHANGED oldRest

\* A receiver is dropped.
OldDropReceiver(l) ==
    /\ l \in qAlive
    /\ qAlive' = qAlive \ {l}
    /\ UNCHANGED <<qVec, qMap, qNext, qpc, qExecutor, qIdx, qProcessed>>
    /\ UNCHANGED oldRest

NextOld ==
    \/ OldSendToVec
    \/ OldRemoveFromVec
    \/ OldSendToNamed
    \/ OldRemoveNamed
    \/ add_general_listener
    \/ \E name \in Names : OldAddListener(name)
    \/ \E l \in SenderIds : OldDropReceiver(l)

(***************************************************************************)
(* The locks of the subscriber registries (src/src/log/observer.rs)        *)
(***************************************************************************)

\* Threads that register subscribers while the background thread runs.
MaxUsers == 2

\* The background thread.
Backend == 0

UserThreads == 1 .. MaxUsers

Registries == {"loaded_listeners", "listeners", "named_listeners"}

\* RwLock::read returns when no thread holds the write guard.
CanRead(r) == rw[r].writer = {}

\* RwLock::write returns when no thread holds a guard.
CanWrite(r) == rw[r].writer = {} /\ rw[r].readers = {}

ReadGuard(r, t) == [rw EXCEPT ![r].readers = @ \cup {t}]

WriteGuard(r, t) == [rw EXCEPT ![r].writer = @ \cup {t}]

\* The read guard stays alive after the block that took it.
DropReadGuard_Leaked(r, t) == rw

\* The guard goes out of scope.
DropReadGuard(r, t) == [rw EXCEPT ![r].readers = @ \ {t}]

DropWriteGuard(r, t) == [rw EXCEPT ![r].writer = @ \ {t}]

NoCall == [at |-> "idle", reg |-> "listeners", name |-> "a", sender |-> 0]

\* send_event_to_listeners (the function): the indexes whose send fails.
FailedIndexes(ids) == {i \in DOMAIN ids : ids[i] \notin lAlive}

\* send_event_to_listeners (the function): the channels after the sends.
SentTo(ids) ==
    [l \in ListenerIds |->
        IF l \in Range(ids) /\ l \in lAlive THEN lInbox[l] + 1 ELSE lInbox[l]]

\* A running observer without subscribers; the thread is between two lines.
InitLocks ==
    /\ rw = [r \in Registries |-> [readers |-> {}, writer |-> {}]]
    /\ lLoaded = 0
    /\ lListeners = <<>>
    /\ lNamed = <<>>
    /\ lAlive = {}
    /\ lInbox = [l \in ListenerIds |-> 0]
    /\ lNext = 0
    /\ lpc = "idle"
    /\ lExecutor = "a"
    /\ lIdx = {}
    /\ lProcessed = 0
    /\ upc = [u \in UserThreads |-> NoCall]

QuietLocks == InitLocks

lockRest == <<pubVars, obsVars, engVars, unitVars>>

\* ---- the background thread: process_line ----

\* process_line with a line that parses into an event.
ProcessLineStart ==
    /\ lpc = "idle"
    /\ lProcessed < MaxLines
    /\ \E name \in Names : lExecutor' = name
    /\ lpc' = "loaded_read"
    /\ UNCHANGED <<rw, lLoaded, lListeners, lNamed, lAlive, lInbox, lNext,
                   lIdx, lProcessed, upc>>
    /\ UNCHANGED lockRest

\* send_event_to_loaded_listeners: self.loaded_listeners.read()
LoadedRead ==
    /\ lpc = "loaded_read"
    /\ CanRead("loaded_listeners")
    /\ rw' = ReadGuard("loaded_listeners", Backend)
    /\ lpc' = "loaded_iter"
    /\ UNCHANGED <<lLoaded, lListeners, lNamed, lAlive, lInbox, lNext,
                   lExecutor, lIdx, lProcessed, upc>>
    /\ UNCHANGED lockRest

\* send_event_to_loaded_listeners: on_event for every listener, end of the
\* function.
LoadedOnEvent ==
    /\ lpc = "loaded_iter"
    /\ rw' = DropReadGuard("loaded_listeners", Backend)
    /\ lpc' = "listeners_read"
    /\ UNCHANGED <<lLoaded, lListeners, lNamed, lAlive, lInbox, lNext,
                   lExecutor, lIdx, lProcessed, upc>>
    /\ UNCHANGED lockRest

\* send_event_to_listeners: self.listeners.read()
ListenersRead ==
    /\ lpc = "listeners_read"
    /\ CanRead("listeners")
    /\ rw' = ReadGuard("listeners", Backend)
    /\ lpc' = "listeners_send"
    /\ UNCHANGED <<lLoaded, lListeners, lNamed, lAlive, lInbox, lNext,
                   lExecutor, lIdx, lProcessed, upc>>
    /\ UNCHANGED lockRest

\* send_event_to_listeners: the sends, and the end of the block.
ListenersSend ==
    /\ lpc = "listeners_send"
    /\ lInbox' = SentTo(lListeners)
    /\ lIdx' = FailedIndexes(lListeners)
    /\ rw' = DropReadGuard("listeners", Backend)
    /\ lpc' = IF FailedIndexes(lListeners) # {}
              THEN "listeners_write" ELSE "named_read"
    /\ UNCHANGED <<lLoaded, lListeners, lNamed, lAlive, lNext, lExecutor,
                   lProcessed, upc>>
    /\ UNCHANGED lockRest

\* send_event_to_listeners: self.listeners.write()
ListenersWrite ==
    /\ lpc = "listeners_write"
    /\ CanWrite("listeners")
    /\ rw' = WriteGuard("listeners", Backend)
    /\ lpc' = "listeners_delete"
    /\ UNCHANGED <<lLoaded, lListeners, lNamed, lAlive, lInbox, lNext,
                   lExecutor, lIdx, lProcessed, upc>>
    /\ UNCHANGED lockRest

\* send_event_to_listeners: delete_indexes, end of the function.  Vec::remove
\* panics on an index past the end.
ListenersDelete ==
    /\ lpc = "listeners_delete"
    /\ IF \E i \in lIdx : i > Len(lListeners)
       THEN /\ lpc' = "panicked"
            /\ UNCHANGED <<rw, lListeners>>
       ELSE /\ lListeners' = delete_indexes(lListeners, lIdx)
            /\ rw' = DropWriteGuard("listeners", Backend)
            /\ lpc' = "named_read"
    /\ UNCHANGED <<lLoaded, lNamed, lAlive, lInbox, lNext, lExecutor, lIdx,
                   lProcessed, upc>>
    /\ UNCHANGED lockRest

\* send_event_to_named_listeners: self.named_listeners.read()
NamedRead ==
    /\ lpc = "named_read"
    /\ CanRead("named_listeners")
    /\ rw' = ReadGuard("named_listeners", Backend)
    /\ lpc' = "named_send"
    /\ UNCHANGED <<lLoaded, lListeners, lNamed, lAlive, lInbox, lNext,
                   lExecutor, lIdx, lProcessed, upc>>
    /\ UNCHANGED lockRest

\* send_event_to_named_listeners: the sends to the senders of the executor,
\* and the end of the block.
NamedSend ==
    /\ lpc = "named_send"
    /\ lInbox' = SentTo(NamedSenders(lNamed, lExecutor))
    /\ lIdx' = FailedIndexes(NamedSenders(lNamed, lExecutor))
    /\ rw' = DropReadGuard("named_listeners", Backend)
    /\ IF FailedIndexes(NamedSenders(lNamed, lExecutor)) # {}
       THEN /\ lpc' = "named_write"
            /\ UNCHANGED lProcessed
       ELSE /\ lpc' = "idle"
            /\ lProcessed' = lProcessed + 1
    /\ UNCHANGED <<lLoaded, lListeners, lNamed, lAlive, lNext, lExecutor, upc>>
    /\ UNCHANGED lockRest

\* send_event_to_named_listeners: self.named_listeners.write()
NamedWrite ==
    /\ lpc = "named_write"
    /\ CanWrite("named_listeners")
    /\ rw' = WriteGuard("named_listeners", Backend)
    /\ lpc' = "named_delete"
    /\ UNCHANGED <<lLoaded, lListeners, lNamed, lAlive, lInbox, lNext,
                   lExecutor, lIdx, lProcessed>>
    /\ UNCHANGED upc
    /\ UNCHANGED lockRest

\* send_event_to_named_listeners: the removal, end of the function.
NamedDelete ==
    /\ lpc = "named_delete"
    /\ IF lExecutor \notin DOMAIN lNamed
       THEN /\ UNCHANGED lNamed
            /\ rw' = DropWriteGuard("named_listeners", Backend)
            /\ lpc' = "idle"
            /\ lProcessed' = lProcessed + 1
       ELSE IF Cardinality(lIdx) = Len(lNamed[lExecutor])
       THEN /\ lNamed' = [n \in (DOMAIN lNamed) \ {lExecutor} |-> lNamed[n]]
            /\ rw' = DropWriteGuard("named_listeners", Backend)
            /\ lpc' = "idle"
            /\ lProcessed' = lProcessed + 1
       ELSE IF \E i \in lIdx : i > Len(lNamed[lExecutor])
       THEN /\ lpc' = "panicked"
            /\ UNCHANGED <<rw, lNamed, lProcessed>>
       ELSE /\ lNamed' = [lNamed EXCEPT ![lExecutor] = delete_indexes(@, lIdx)]
            /\ rw' = DropWriteGuard("named_listeners", Backend)
            /\ lpc' = "idle"
            /\ lProcessed' = lProcessed + 1
    /\ UNCHANGED <<lLoaded, lListeners, lAlive, lInbox, lNext, lExecutor,
                   lIdx, upc>>
    /\ UNCHANGED lockRest

BackendLocks ==
    \/ LoadedRead
    \/ LoadedOnEvent
    \/ ListenersRead
    \/ ListenersSend
    \/ ListenersWrite
    \/ ListenersDelete
    \/ NamedRead
    \/ NamedSend
    \/ NamedWrite
    \/ NamedDelete

\* ---- the threads that use the LogObserver ----

\* A thread calls add_loaded_listener (once per connection), add_listener
\* or add_named_listener; the latter two create a channel first.
UserCall(u, r, name) ==
    /\ upc[u].at = "idle"
    /\ IF r = "loaded_listeners"
       THEN lLoaded = 0 /\ \A v \in UserThreads : upc[v].reg # r
       ELSE lNext < MaxListeners
    /\ r = "named_listeners" \/ name = "a"
    /\ upc' = [upc EXCEPT ![u] =
                  [at |-> "write", reg |-> r, name |-> name,
                   sender |-> IF r = "loaded_listeners" THEN 0 ELSE lNext + 1]]
    /\ lNext' = IF r = "loaded_listeners" THEN lNext ELSE lNext + 1
    /\ UNCHANGED <<rw, lLoaded, lListeners, lNamed, lAlive, lInbox, lpc,
                   lExecutor, lIdx, lProcessed>>
    /\ UNCHANGED lockRest

\* .write().unwrap() of the call
UserWrite(u) ==
    /\ upc[u].at = "write"
    /\ CanWrite(upc[u].reg)
    /\ rw' = WriteGuard(upc[u].reg, u)
    /\ upc' = [upc EXCEPT ![u].at = "push"]
    /\ UNCHANGED <<lLoaded, lListeners, lNamed, lAlive, lInbox, lNext, lpc,
                   lExecutor, lIdx, lProcessed>>
    /\ UNCHANGED lockRest

\* push(..) of the call, the end of the statement, and the return of the
\* stream.
UserPush(u) ==
    /\ upc[u].at = "push"
    /\ LET sender == upc[u].sender
       IN  /\ lLoaded' = IF upc[u].reg = "loaded_listeners"
                         THEN lLoaded + 1 ELSE lLoaded
           /\ lListeners' = IF upc[u].reg = "listeners"
                            THEN Append(lListeners, sender) ELSE lListeners
           /\ lNamed' = IF upc[u].reg = "named_listeners"
                        THEN [n \in (DOMAIN lNamed) \cup {upc[u].name} |->
                                 IF n = upc[u].name
                                 THEN Append(NamedSenders(lNamed, n), sender)
                                 ELSE lNamed[n]]
                        ELSE lNamed
           /\ lAlive' = IF upc[u].reg = "loaded_listeners"
                        THEN lAlive ELSE lAlive \cup {sender}
    /\ rw' = DropWriteGuard(upc[u].reg, u)
    /\ upc' = [upc EXCEPT ![u] = NoCall]
    /\ UNCHANGED <<lInbox, lNext, lpc, lExecutor, lIdx, lProcessed>>
    /\ UNCHANGED lockRest

\* A subscriber drops its stream.
UserDropStream(l) ==
    /\ l \in lAlive
    /\ lAlive' = lAlive \ {l}
    /\ UNCHANGED <<rw, lLoaded, lListeners, lNamed, lInbox, lNext, lpc,
                   lExecutor, lIdx, lProcessed, upc>>
    /\ UNCHANGED lockRest

UserRelease == \E u \in UserThreads : UserPush(u)

NextLocks ==
    \/ ProcessLineStart
    \/ BackendLocks
    \/ \E u \in UserThreads, r \in Registries, name \in Names : UserCall(u, r, name)
    \/ \E u \in UserThreads : UserWrite(u)
    \/ UserRelease
    \/ \E l \in ListenerIds : UserDropStream(l)

QuietUnit == QuietSpiral /\ QuietLog /\ QuietBuilder /\ QuietCuboid /\ QuietOld

QuietSide == QuietEng /\ QuietLocks /\ QuietUnit

\* A channel nobody publishes on.
QuietPub == InitPub /\ counter = <<>> /\ ~ackOn

\* No observer.
QuietObs == InitNew /\ history = 0

SubscriberNext ==
    \/ AddListener
    \/ \E name \in Names : AddNamedListener(name)
    \/ \E l \in ListenerIds : DropStream(l)

(***************************************************************************)
(* Specifications                                                          *)
(***************************************************************************)

\* The batch protocol.
Init == InitPub /\ QuietObs /\ ~ackOn /\ QuietSide

Next == NextPub

Spec == Init /\ [][Next]_vars

\* The batch protocol with the acknowledgment listener of the channel
\* registered: the host's completion reports reach LoadedListener::on_event.
InitAck == InitPub /\ QuietObs /\ ackOn /\ QuietSide

NextPubAck == NextPub \/ NextAck

SpecAck == InitAck /\ [][NextPubAck]_vars

\* The same, in a world in which a connection with another identifier
\* publishes too: the log file is shared, the structures directories are not.
NextShared == NextPub \/ NextAck \/ \E n \in Ids : OtherConnectionLoaded(n)

SpecShared == InitAck /\ [][NextShared]_vars

\* The batch protocol with a program that calls connect on the channel
\* while others publish.
NextConnect == NextPub \/ ConnectRead

SpecConnect == Init /\ [][NextConnect]_vars

\* A running observer on a log file that only grows, by whole lines or by
\* parts of lines.  The background thread
\* is a thread of its own that never blocks for longer than the poll timeout.
NextObs ==
    \/ AppendLine
    \/ AppendLineStart
    \/ AppendLineEnd
    \/ OtherEvent
    \/ SubscriberNext
    \/ ReaderNext

InitRunning == InitObs /\ QuietPub /\ QuietSide

SpecObs == InitRunning /\ [][NextObs]_vars /\ WF_vars(ReaderNext)

\* A running observer on a log file that is rotated; every line is
\* appended in one write.
NextRot ==
    \/ AppendLine
    \/ OtherEvent
    \/ SubscriberNext
    \/ BackendNext
    \/ RotateReplace
    \/ RotateTruncate

SpecRot == InitRunning /\ [][NextRot]_vars /\ WF_vars(BackendNext)

\* The construction of an observer on a log file that may hold lines, and
\* its run with unfiltered subscribers and the acknowledgment listener.
NextNew ==
    \/ AppendLine
    \/ AppendLineStart
    \/ AppendLineEnd
    \/ RotateReplace
    \/ AddListener
    \/ AddLoadedListener
    \/ BackendNext
    \/ NewObserver
    \/ StartWatch
    \/ OpenAndSeek
    \/ StartupPanic
    \/ NewReturns

InitConstruct == InitNew /\ QuietPub /\ QuietSide

SpecNew == InitConstruct /\ [][NextNew]_vars

\* The life of the background thread: a running observer whose LogObserver
\* can be dropped and whose thread can panic; every line is appended in one
\* write.  The thread is scheduled fairly.
ThreadNext == ReaderNext \/ LoopExit

NextLife ==
    \/ AppendLine
    \/ SubscriberNext
    \/ DropObserver
    \/ RuntimePanic
    \/ ThreadNext

SpecLife == InitRunning /\ [][NextLife]_vars /\ WF_vars(ThreadNext)

\* place_commands on every chain of at most MaxChain commands.
InitPlacing ==
    InitPlace /\ QuietBlocks /\ QuietOrient /\ QuietLocks /\ QuietUnit /\ QuietPub /\ QuietObs

SpecPlace == InitPlacing /\ [][NextPlace]_vars

\* generate_command_blocks on the commands of every call of at most
\* MaxCommands commands.
InitGenerating ==
    InitBlocks /\ QuietPlace /\ QuietOrient /\ QuietLocks /\ QuietUnit /\ QuietPub /\ QuietObs

SpecBlocks == InitGenerating /\ [][NextBlocks]_vars

\* Every orientation applied to every coordinate, and inverted.
InitOrienting ==
    InitOrient /\ QuietPlace /\ QuietBlocks /\ QuietLocks /\ QuietUnit /\ QuietPub /\ QuietObs

SpecOrient == InitOrienting /\ [][NextOrient]_vars

\* The background thread processing events while other threads register
\* subscribers and drop streams.  Every thread is scheduled fairly: the
\* background thread goes on, and a thread that holds a guard releases it.
InitLocking == InitLocks /\ QuietEng /\ QuietUnit /\ QuietPub /\ QuietObs

\* One QuaterSpiralCurve walked item by item, and the curve place_commands
\* builds on it for a prim_size.
InitWalking == InitSpiral /\ QuietLog /\ QuietBuilder /\ QuietCuboid /\ QuietOld /\ QuietEng /\ QuietLocks /\ QuietPub /\ QuietObs

SpecSpiral == InitWalking /\ [][NextSpiral]_vars

\* One line parsed, formatted and parsed again.
InitParsing == InitLog /\ QuietSpiral /\ QuietBuilder /\ QuietCuboid /\ QuietOld /\ QuietEng /\ QuietLocks /\ QuietPub /\ QuietObs

SpecLog == InitParsing /\ [][NextLog]_vars

\* One StructureBuilder filled block by block.
InitBuilding == InitBuilder /\ QuietLog /\ QuietSpiral /\ QuietCuboid /\ QuietOld /\ QuietEng /\ QuietLocks /\ QuietPub /\ QuietObs

SpecBuilder == InitBuilding /\ [][NextBuilder]_vars

\* One CuboidCurve walked item by item.
InitFilling == InitCuboid /\ QuietOld /\ QuietBuilder /\ QuietLog /\ QuietSpiral /\ QuietEng /\ QuietLocks /\ QuietPub /\ QuietObs

SpecCuboid == InitFilling /\ [][NextCuboid]_vars

\* The observer of log_observer.rs with threads that register listeners.
InitObserving == InitOld /\ QuietCuboid /\ QuietBuilder /\ QuietLog /\ QuietSpiral /\ QuietEng /\ QuietLocks /\ QuietPub /\ QuietObs

SpecOld == InitObserving /\ [][NextOld]_vars

SpecLocks ==
    InitLocking /\ [][NextLocks]_vars /\ WF_vars(BackendLocks) /\ WF_vars(UserRelease)

(***************************************************************************)
(* Claims about the batch protocol                                         *)
(***************************************************************************)

AllIdle == \A p \in Procs : pc[p] = "idle"

\* A process that has derived its id and has not returned yet.
HasId(p) == pc[p] \notin {"idle", "locked"}

\* C1: no two execute_commands calls that return Ok write their document
\* under the same batch id.  (Stated here for the behaviours in which no
\* process crashed: calls only succeed or fail with an error.)
C1_UniqueBatchIds ==
    ("crash" \notin faults /\ "crash_renamed" \notin faults) =>
        \A c1, c2 \in okCalls : c1.id = c2.id => c1.batch = c2.batch

\* C2: when execute_commands returns an error, id.txt holds what it held
\* before the call.
C2_ErrorLeavesCounter ==
    [][\A p \in Procs :
          (pc[p] # "idle" /\ pc'[p] = "idle" /\ result'[p] = "err")
              => counter' = before[p]]_vars

\* C3: after a crash between the rename and the write of the counter (and
\* with no other fault), no batch that is published successfully is skipped
\* by a host that loads the ids in increasing order, each once: a published
\* batch has been loaded, or the host has not yet loaded a document under
\* its id.
C3_NoBatchSkippedAfterCrash ==
    (faults \subseteq {"crash_renamed"}) =>
        \A c \in okCalls : c.batch \in loaded \/ c.id \notin consumed

\* C7: when no call is running (and no process crashed), id.txt holds the id
\* of the last call that returned Ok.
C7_CounterIsLastOkId ==
    (AllIdle /\ lastOk # {} /\ "crash" \notin faults /\ "crash_renamed" \notin faults) =>
        \A i \in lastOk : counter = to_string(i)

\* The number a string of at most two decimal digits denotes.
DecimalValue(s) == IF Len(s) = 1 THEN s[1] ELSE 10 * s[1] + s[2]

\* C8: a call that found id.txt empty uses id 0, every other call uses the
\* stored number plus one modulo 2^IdBits (0 after the largest id), and the
\* document it writes names the id after its own, modulo 2^IdBits, as the
\* next structure to load.
C8_IdsWithoutGaps ==
    /\ \A p \in Procs : HasId(p) =>
          IF before[p] = <<>>
          THEN id[p] = 0
          ELSE /\ DecimalValue(before[p]) = IdModulus - 1 => id[p] = 0
               /\ DecimalValue(before[p]) < IdModulus - 1
                     => id[p] = DecimalValue(before[p]) + 1
    /\ \A p \in Procs : pc[p] \in {"tmp_created", "tmp_written"} =>
          tmp.next = (id[p] + 1) % IdModulus
    /\ \A i \in Ids : docs[i].present => docs[i].next = (i + 1) % IdModulus

\* C8 witness: a call that read the largest id has published document 0,
\* and another call has published the document after a stored number.
C8_Witness ==
    /\ \E p \in Procs : /\ pc[p] = "renamed"
                        /\ before[p] = to_string(IdModulus - 1)
                        /\ id[p] = 0
                        /\ docs[0].present
    /\ \E c \in okCalls : c.id = IdModulus - 1

\* C9: <id>.nbt is absent or a completely written document.
C9_CanonicalFileComplete ==
    \A i \in Ids : docs[i].present => docs[i].complete

(***************************************************************************)
(* Claims about the log observer                                           *)
(***************************************************************************)

IsPrefix(a, b) == Len(a) <= Len(b) /\ a = SubSeq(b, 1, Len(a))

\* The lines appended after the observer was created.
NewLines == (history + 1) .. Len(lineInfo)

\* The well-formed lines among them, in file order.
RECURSIVE WellFormedUpTo(_)
WellFormedUpTo(n) ==
    IF n <= history THEN <<>>
    ELSE IF lineInfo[n].ok THEN Append(WellFormedUpTo(n - 1), n)
    ELSE WellFormedUpTo(n - 1)

WellFormedNew == WellFormedUpTo(Len(lineInfo))

\* An unfiltered subscriber with a live stream that was registered before
\* any line was appended.
EarlySubscriber(l) == l \in alive /\ lname[l] = "*" /\ l \in early

\* C4: a subscriber registered before any line is appended, whose stream
\* stays alive, receives the well-formed lines appended to the log exactly
\* once and in file order: what it has received is always the first lines
\* of the well-formed lines appended so far, none repeated and none left out.
C4_EveryLineOnceInOrder ==
    \A l \in ListenerIds :
        EarlySubscriber(l) => IsPrefix(inbox[l], WellFormedNew)

\* C5: across rotations of the log file no well-formed line is delivered
\* twice to a live subscriber and none is lost: a line is delivered only
\* after every well-formed line written before it.
C5_RotationExactlyOnce ==
    \A l \in ListenerIds : EarlySubscriber(l) =>
        /\ \A i, j \in DOMAIN inbox[l] : inbox[l][i] = inbox[l][j] => i = j
        /\ \A i \in DOMAIN inbox[l] : \A k \in NewLines :
              (lineInfo[k].ok /\ k < inbox[l][i])
                  => \E j \in 1 .. (i - 1) : inbox[l][j] = k

\* The events of executor `name` among processedLog[from + 1 ..].
RECURSIVE EventsOf(_, _, _)
EventsOf(name, from, to) ==
    IF to <= from THEN <<>>
    ELSE IF lineInfo[processedLog[to]].exec = name
         THEN Append(EventsOf(name, from, to - 1), processedLog[to])
         ELSE EventsOf(name, from, to - 1)

\* C6: a subscriber registered under a name has received only events of
\* that executor, and every live subscriber registered under the name has
\* received each such event processed since it registered.
C6_NamedDelivery ==
    \A l \in ListenerIds : (l \in alive /\ lname[l] \in Names) =>
        /\ \A i \in DOMAIN inbox[l] : lineInfo[inbox[l][i]].exec = lname[l]
        /\ inbox[l] = EventsOf(lname[l], regProcessed[l], Len(processedLog))

\* C6 witness: two live subscribers of one name have both received an event
\* of that name, and an event of another executor was processed that
\* neither received.
C6_Witness ==
    \E l1, l2 \in ListenerIds :
        /\ l1 # l2
        /\ l1 \in alive /\ l2 \in alive
        /\ lname[l1] \in Names /\ lname[l1] = lname[l2]
        /\ inbox[l1] # <<>> /\ inbox[l2] # <<>>
        /\ \E i \in DOMAIN processedLog :
              lineInfo[processedLog[i]].exec # lname[l1]

\* The history part of C10: no line that was in the log file when
\* LogObserver::new was called has been delivered.
NoHistoryDelivered ==
    /\ \A l \in ListenerIds : \A i \in DOMAIN inbox[l] : inbox[l][i] > history
    /\ \A i \in DOMAIN ackInbox : ackInbox[i] > history

\* C10: no line that was in the log file when LogObserver::new was called is
\* delivered to a subscriber or to the acknowledgment listener, and new has
\* returned only if the background thread has positioned its reader at the
\* end of the file.
C10_NoHistoryAndPositioned ==
    /\ NoHistoryDelivered
    /\ mainPc = "returned" => positioned

(***************************************************************************)
(* The acknowledgment listener and the structures directory                *)
(***************************************************************************)

\* The ids N-1, N-2, ..., N-n, wrapping below 0.
RunBelow(n0, n) == { WrappingSub(n0, j) : j \in 1 .. n }

\* What on_event did when it returns: it called remove_file for N and then
\* for N-1, N-2, ... up to the first id whose removal failed, and it removed
\* every file of that run before the failure.
SweepIsRun ==
    /\ ackI >= 1
    /\ ackTried = {ackN} \cup RunBelow(ackN, ackI)
    /\ ackDeleted \ {ackN} = RunBelow(ackN, ackI - 1)
    /\ ackDeleted \subseteq ackTried

\* C17 as stated: handling "batch N loaded" removes document N and then
\* N-1, N-2, ... (wrapping below 0) until the first removal fails, a failed
\* removal of N does not prevent the attempt on N-1, and no document with an
\* id above N is removed.
C17_NothingAboveNRemoved ==
    apc = "done" => (SweepIsRun /\ \A d \in ackDeleted : d <= ackN)

\* C17 as amended: handling "batch N loaded" removes document N and then
\* N-1, N-2, ... (wrapping below 0, from id 0 on to the largest id) until the
\* first removal fails; a failed removal of N does not prevent the attempt on
\* N-1; no document outside that run is removed.
C17_SweepRemovesRunBelowN ==
    apc = "done" => SweepIsRun

\* The removal of document N failed and document N-1 was removed all the same.
C17_Witness ==
    /\ apc = "done"
    /\ ackN \notin ackDeleted
    /\ WrappingSub(ackN, 1) \in ackDeleted

\* The live document files of the structures directory.
LiveDocs == { i \in Ids : docs[i].present }

\* C18: the structures directory holds at most two live document files, for
\* any sequence of publishes, host loads and acknowledgments.
C18_AtMostTwoLiveDocs == Cardinality(LiveDocs) <= 2

\* C19: when a publish of batch id returns successfully, a file for batch
\* id+1 exists in the structures directory.
C19_NextFileExists ==
    [][\A p \in Procs :
          (pc[p] = "truncated" /\ result'[p] = "ok")
              => docs'[WrappingInc(id[p])].present]_vars

\* C20 as stated: the completion report of the document published under
\* batch id is tagged with (id + 1) mod 2^64, the value in its load block.
C20_TagIsNextId ==
    \A i \in Ids :
        docs[i].present =>
            (docs[i].tag = WrappingInc(i) /\ docs[i].tag = docs[i].next)

\* C20 as amended: the completion report of the document published under
\* batch id is tagged with id itself, while the load block of the document
\* names (id + 1) mod 2^64.
C20_TagIsOwnId ==
    \A i \in Ids :
        docs[i].present =>
            (docs[i].tag = i /\ docs[i].next = WrappingInc(i))

\* A document published under the largest id: its load block names id 0.
C20_Witness ==
    /\ docs[IdModulus - 1].present
    /\ docs[IdModulus - 1].tag = IdModulus - 1
    /\ docs[IdModulus - 1].next = 0

(***************************************************************************)
(* Registration, polling and the life of the background thread             *)
(***************************************************************************)

\* C11: a subscriber never receives an event whose line was appended to the
\* log file before the subscriber was registered.
C11_NoLineFromBeforeRegistration ==
    \A l \in alive : \A i \in DOMAIN inbox[l] : inbox[l][i] > regLines[l]

\* Subscriber l is registered for the events of line k.
Matches(l, k) == lname[l] = "*" \/ lname[l] = lineInfo[k].exec

\* The background thread has read the log file to its end and is back in
\* its watch loop.
CaughtUp ==
    /\ bpc \in {"loop", "recv"}
    /\ readerFile = pathFile
    /\ readerPos = Len(files[pathFile])
    /\ ~LinePending

\* C12: every well-formed line appended to the log file is read and
\* delivered to each live matching subscriber, whatever notifications the
\* watcher delivers: once the thread has read the file to its end, every
\* live subscriber holds every matching line appended since it registered.
C12_AppendedLinesDelivered ==
    CaughtUp =>
        \A l \in alive :
            \A k \in (regLines[l] + 1) .. Len(lineInfo) :
                (lineInfo[k].ok /\ Matches(l, k)) => k \in Range(inbox[l])

\* C13 as stated: the background thread has not shut down before the
\* LogObserver and every subscription stream derived from it are dropped.
C13_AliveUntilAllDropped ==
    bpc = "done" => (~observerHeld /\ alive = {})

\* C13 as amended: the background thread leaves its watch loop only after
\* the LogObserver has been dropped; subscription streams that are still
\* held do not keep it running.
C13_ExitsOnlyAfterObserverDropped ==
    bpc = "done" => ~observerHeld

\* The thread has shut down while a subscription stream is still held.
C13_Witness == bpc = "done" /\ alive # {}

\* The background thread has ended.
ThreadEnded == bpc \in {"done", "panicked"}

\* C14: after the LogObserver is dropped the background thread terminates:
\* the next time it evaluates the loop condition it leaves the loop, and
\* under fair scheduling it gets there, whatever the log file and the
\* registries hold.
C14_TerminatesAfterDrop ==
    /\ [][(~observerHeld /\ bpc = "loop") => bpc' \in {"loop", "done"}]_vars
    /\ (~observerHeld ~> ThreadEnded)

\* The thread has shut down with unread lines in the log file and with
\* subscribers registered.
C14_Witness ==
    /\ ~observerHeld
    /\ bpc = "done"
    /\ readerPos < Len(files[readerFile])
    /\ listeners # <<>>

\* The senders registered under the executor of event k.
SendersOf(reg, k) == Range(NamedSenders(reg, lineInfo[k].exec))

\* C15: when the processing of an event completes, every subscriber whose
\* stream was dropped and to which the event was sent is out of its
\* registry and has received nothing, the live subscribers are still
\* registered, and no name maps to an empty list.
C15_DroppedSubscriberPruned ==
    /\ [](\A n \in DOMAIN named : named[n] # <<>>)
    /\ [][processedLog' # processedLog =>
            LET k == processedLog'[Len(processedLog')]
            IN /\ \A l \in Range(listeners) \ alive :
                     l \notin Range(listeners') /\ inbox'[l] = inbox[l]
               /\ \A l \in SendersOf(named, k) \ alive :
                     l \notin SendersOf(named', k) /\ inbox'[l] = inbox[l]
               /\ \A l \in Range(listeners) \cap alive :
                     l \in Range(listeners')
               /\ \A l \in SendersOf(named, k) \cap alive :
                     l \in SendersOf(named', k)]_vars

\* One subscriber is live and registered under a name; the other one
\* dropped its stream and is gone from the registries.
C15_Witness ==
    /\ nListeners = 2
    /\ Cardinality(alive) = 1
    /\ listeners = <<>>
    /\ \E n \in DOMAIN named : Len(named[n]) = 1 /\ named[n][1] \in alive
    /\ \A n \in DOMAIN named : Range(named[n]) \subseteq alive

\* The sender of subscriber l is still held in a registry, so that its
\* stream does not end.
SenderHeld(l) ==
    \/ l \in Range(listeners)
    \/ \E n \in DOMAIN named : l \in Range(named[n])

\* C16: the death of the background thread is not silent: when the thread
\* has panicked and the LogObserver is held, the constructor has reported
\* an error (it never does: new returns a LogObserver) or the stream of every
\* subscriber has ended.
C16_ThreadDeathNotSilent ==
    (bpc = "panicked" /\ mainPc = "returned" /\ observerHeld) =>
        \A l \in alive : ~SenderHeld(l)

(***************************************************************************)
(* The lock on the counter file                                            *)
(***************************************************************************)

\* The calls that are between lock_file and their return.
InsideCall == { p \in Procs : pc[p] # "idle" }

\* C21: at most one execute_commands call of the channel is between
\* acquiring the lock on id.txt and returning, and the lock is released on
\* every return path: exactly the call that is inside holds the lock, so a
\* caller waiting for the lock can take it once the holder has returned.
C21_OneCallHoldsLock ==
    /\ Cardinality(InsideCall) <= 1
    /\ lockHolder = InsideCall

\* A call has taken the lock after another call returned with an error.
C21_Witness ==
    \E p, q \in Procs :
        /\ p # q
        /\ result[p] = "err"
        /\ pc[p] = "idle"
        /\ pc[q] = "locked"
        /\ lockHolder = {q}

\* C22: every read of id.txt, by execute_commands and by connect, happens
\* under the exclusive lock, so that no read observes the counter file
\* between its truncation and its rewrite by a concurrent publish.
C22_NoReadOfTruncatedCounter ==
    connectRead.done => ~connectRead.truncated

\* The content denotes a u64 in decimal: digits, possibly after a plus sign,
\* of a value below 2^IdBits.
IsDecimalU64(s) ==
    LET digits == IF s # <<>> /\ Head(s) = PlusSign THEN Tail(s) ELSE s
    IN /\ digits # <<>>
       /\ \A i \in DOMAIN digits : IsDigit(digits[i])
       /\ Len(digits) <= 2
       /\ DecimalValue(digits) < IdModulus

\* The counter file holds something that is no decimal u64.
MalformedCounter == counter # <<>> /\ ~IsDecimalU64(counter)

\* C23: when id.txt is non-empty and its content is no decimal u64, a call
\* of execute_commands derives no id, and it leaves the step that reads the
\* counter only by returning an error, with no document file created or
\* renamed and with id.txt unchanged.
C23_MalformedCounterIsError ==
    /\ [](\A p \in Procs : HasId(p) => ~MalformedCounter)
    /\ [][\A p \in Procs :
            (MalformedCounter /\ pc[p] = "locked" /\ pc'[p] # "locked"
                 /\ result'[p] # "crashed")
            => /\ result'[p] = "err"
               /\ pc'[p] = "idle"
               /\ counter' = counter
               /\ docs' = docs
               /\ tmp' = tmp]_vars

\* A call has returned an error on a malformed counter file, and no
\* document exists.
C23_Witness ==
    /\ MalformedCounter
    /\ \E p \in Procs : pc[p] = "idle" /\ result[p] = "err"
    /\ nCalls = MaxCalls
    /\ \A i \in Ids : ~docs[i].present

(***************************************************************************)
(* Claims about the placement engines                                      *)
(***************************************************************************)

\* C24: every conditional command that has a command before it lies in the
\* cell directly after the cell of that command (no cell without a command
\* in between, the two cells adjacent on the path), and the two cells have
\* the same outgoing direction.  So a run of k conditional commands and
\* the unconditional command before it occupy consecutive cells of one
\* straight segment.
C24_ConditionalRunOnStraightSegment ==
    \A j \in 1 .. Len(placed) :
        /\ placed[j].coordinate = CurveAt(j - 1, prim_size(chain))
        /\ (placed[j].command > 1 /\ chain[placed[j].command]) =>
              /\ j > 1
              /\ placed[j - 1].command = placed[j].command - 1
              /\ placed[j].direction \in Direction3
              /\ placed[j - 1].direction = placed[j].direction

\* place_commands returned a chain in which cells without a command precede
\* a run of two conditional commands.
C24_Witness ==
    /\ ppc = "done"
    /\ \E j \in 2 .. Len(placed) - 2 :
          /\ placed[j - 1].command = 0
          /\ placed[j].command # 0
          /\ ~chain[placed[j].command]
          /\ chain[placed[j + 1].command]
          /\ chain[placed[j + 2].command]

\* The cells of the generated chain that hold a command of the list given.
InstructionCells ==
    {j \in 1 .. Len(gBlocks) : gBlocks[j].command.name # "fill"}

\* The cells of the generated chain that hold the bulk-clear command.
CleanupCells ==
    {j \in 1 .. Len(gBlocks) : gBlocks[j].command.name = "fill"}

\* C25: the chain generate_command_blocks returns never has more cells than
\* the host limit MAX_LEN, and for a list of more than MAX_LEN commands it
\* holds exactly MAX_LEN commands and the one cleanup cell.
C25_CellCountWithinLimit ==
    gpc = "done" =>
        /\ Cardinality(InstructionCells) <= MAX_LEN
        /\ Len(gCmds) > MAX_LEN =>
              /\ Cardinality(InstructionCells) = MAX_LEN
              /\ Cardinality(CleanupCells) = 1

\* C26: the generated chain ends with one cleanup cell that holds the
\* bulk-clear command and lies in the path cell directly after the last
\* command placed.
C26_CleanupCellAfterLastCommand ==
    gpc = "done" =>
        /\ Cardinality(CleanupCells) = 1
        /\ Len(gBlocks) \in CleanupCells
        /\ Len(gBlocks) > 1 =>
              gBlocks[Len(gBlocks)].pos
                  = Add3(gBlocks[Len(gBlocks) - 1].pos,
                         as_coordinate(gBlocks[Len(gBlocks) - 1].facing))

\* C27: in the chain generated for a non-empty list of commands exactly the
\* first cell is an impulse command block, every other cell a chain command
\* block.
C27_OnlyFirstCellIsImpulse ==
    \A j \in 1 .. Len(gBlocks) :
        gBlocks[j].kind = IF j = 1 THEN "Impulse" ELSE "Chain"

\* generate_command_blocks returned a chain that reaches every layer of the
\* cuboid.
C27_Witness ==
    /\ gpc = "done"
    /\ Len(gBlocks) = MAX_LEN - 1
    /\ gBlocks[1].kind = "Impulse"
    /\ gBlocks[Len(gBlocks)].kind = "Chain"

\* C28: whenever generate_command_blocks returns fewer cells than the list
\* has commands (the restore-logging command appended by
\* add_implicit_commands included), it has logged the warning, and the
\* number of commands placed is the limit the warning names.
C28_DroppedCommandIsWarned ==
    (gpc = "done" /\ Len(gBlocks) < Len(gCmds)) =>
        /\ gWarned # <<>>
        /\ Len(gBlocks) = gWarned[1].max_len

(***************************************************************************)
(* Claims about the orientations                                           *)
(***************************************************************************)

\* C30: for each of the 48 orientations o and every coordinate c, orienting
\* o.orient_coordinate(c) by o.inverse() gives c again, and the inverse of
\* the inverse of o is o.
C30_InverseUndoesOrientation ==
    /\ Cardinality(Orientation3) = 48
    /\ opc = "restored" => actual = given
    /\ nInverse = 2 => inverted = orientation

\* An orientation that is not its own inverse has been applied to the
\* coordinate of test_inverse, its inverse applied to the outcome, and it
\* has been inverted twice.
C30_Witness ==
    /\ opc = "restored"
    /\ nInverse = 2
    /\ inverse(orientation) # orientation
    /\ given = <<1, 2, 3>>
    /\ orient_coordinate(orientation, given) # given

(***************************************************************************)
(* Claims about the locks of the registries                                *)
(***************************************************************************)

\* The background thread asks for the write guard of a registry only when
\* it holds no read guard of that registry.
NoWriteRequestUnderReadGuard ==
    /\ lpc = "listeners_write" => Backend \notin rw["listeners"].readers
    /\ lpc = "named_write" => Backend \notin rw["named_listeners"].readers

\* A step of the background thread that changes a registry is taken with
\* the write guard of that registry.
MutationUnderWriteGuard ==
    /\ (lpc' # lpc /\ lListeners' # lListeners) =>
           rw["listeners"].writer = {Backend}
    /\ (lpc' # lpc /\ lNamed' # lNamed) =>
           rw["named_listeners"].writer = {Backend}

\* C29: the background thread changes a registry only while it holds the
\* write guard of that registry, it never asks for the write guard of a
\* registry while it holds a read guard of it, and the processing of every
\* event it has started comes to its end, also while other threads
\* register subscribers.
C29_RegistryLocksNeverBlockTheThread ==
    /\ []NoWriteRequestUnderReadGuard
    /\ [][MutationUnderWriteGuard]_vars
    /\ (lpc # "idle") ~> (lpc = "idle")

\* The background thread holds the write guard of the unfiltered registry
\* to remove a sender while another thread waits to register one there.
C29_Witness ==
    /\ lpc = "listeners_delete"
    /\ rw["listeners"].writer = {Backend}
    /\ lIdx # {}
    /\ \E u \in UserThreads : upc[u].at = "write" /\ upc[u].reg = "listeners"

(***************************************************************************)
(* Claims about the curves                                                 *)
(***************************************************************************)

\* The cells of the square [0, n) x [0, n).
Square(n) == {<<x, z>> : x \in 0 .. n - 1, z \in 0 .. n - 1}

\* C34: QuaterSpiralCurve starts (0,0), (1,0), (1,1), (0,1), (0,2); for
\* every n >= 1 its first n * n items are the cells of the n x n square,
\* each once; two consecutive items differ by 1 in exactly one component;
\* and two consecutive cells of the curve of place_commands are face
\* adjacent, so that Direction3::try_from does not fail.
C34_SpiralFillsSquares ==
    /\ \A k \in 1 .. Len(sItems) :
          k <= 5 => sItems[k] = <<<<0, 0>>, <<1, 0>>, <<1, 1>>, <<0, 1>>, <<0, 2>>>>[k]
    /\ \A n \in 1 .. Len(sItems) :
          n * n <= Len(sItems) =>
              /\ {sItems[k] : k \in 1 .. n * n} = Square(n)
              /\ \A j, k \in 1 .. n * n : sItems[j] = sItems[k] => j = k
    /\ \A k \in 1 .. Len(sItems) - 1 :
          \/ /\ sItems[k + 1][1] = sItems[k][1]
             /\ sItems[k + 1][2] - sItems[k][2] \in {-1, 1}
          \/ /\ sItems[k + 1][2] = sItems[k][2]
             /\ sItems[k + 1][1] - sItems[k][1] \in {-1, 1}
    /\ \A k \in 1 .. Len(sItems) - 1 :
          \A y \in 0 .. sPrim - 1 :
              TryFrom(Sub3(IF y + 1 < sPrim THEN column(sItems[k], y + 1, sPrim)
                           ELSE column(sItems[k + 1], 0, sPrim),
                           column(sItems[k], y, sPrim))) \in Direction3

\* The curve has filled the 6 x 6 square.
C34_Witness ==
    /\ Len(sItems) = 36
    /\ sPrim > 1

(***************************************************************************)
(* Claims about LogEvent                                                   *)
(***************************************************************************)

\* C31: for every line the parser accepts, formatting the parsed event
\* reproduces the line, and parsing the formatted text yields an equal
\* LogEvent.
C31_FormatReproducesLine ==
    epc = "reparsed" => /\ eString = eLine
                        /\ eAgain = eEvent

(***************************************************************************)
(* Claims about StructureBuilder                                           *)
(***************************************************************************)

\* The largest of a non-empty set of integers, 0 for the empty set.
MaxOf(S) == IF S = {} THEN 0 ELSE CHOOSE m \in S : \A n \in S : n <= m

LoggingAutomatically == Len(gCmds) = gLen + 1

\* C33: with enable_logging_automatically set, the chain of every generated
\* document, truncated or not, has the enable-logging command as its first
\* instruction and the reset-logging command as its last.
C33_LoggingCommandsFrameTheChain ==
    (gpc = "done" /\ LoggingAutomatically) =>
        /\ gBlocks # <<>>
        /\ gBlocks[1].command = Command("enable_logging", 0)
        /\ gBlocks[Len(gBlocks)].command = Command("reset_logging", 0)

\* C38: when the list fits the host limit MAX_LEN, the chain holds the
\* whole list in its order (enable-logging, the loaded report, the caller's
\* commands as submitted, then reset-logging), the chain starts at
\* CMD_BLOCK_OFFSET, and every cell's facing points at the cell of the next
\* instruction.
C38_ChainHoldsListInOrder ==
    (gpc = "done" /\ Len(gCmds) <= MAX_LEN) =>
        /\ Len(gBlocks) = Len(gCmds)
        /\ \A i \in 1 .. Len(gBlocks) : gBlocks[i].command = gCmds[i]
        /\ gBlocks[1].pos = CMD_BLOCK_OFFSET
        /\ \A i \in 1 .. Len(gBlocks) - 1 :
              gBlocks[i + 1].pos
                  = Add3(gBlocks[i].pos, as_coordinate(gBlocks[i].facing))

(***************************************************************************)
(* Claims about the pruning of the registries                              *)
(***************************************************************************)

\* The senders of a list at the indexes outside idx, in their order.
Keep(ids, idx) ==
    LET F[k \in 0 .. Len(ids)] ==
            IF k = 0 THEN <<>>
            ELSE IF k \in idx THEN F[k - 1] ELSE Append(F[k - 1], ids[k])
    IN  F[Len(ids)]

\* Between the pass that sends and the pass that removes, the indexes
\* collected still point at the senders whose send failed.
IndexesPointAtFailedSenders ==
    /\ lpc \in {"listeners_write", "listeners_delete"} =>
          \A i \in lIdx : i <= Len(lListeners) /\ lListeners[i] \notin lAlive
    /\ lpc \in {"named_write", "named_delete"} =>
          \A i \in lIdx :
              /\ i <= Len(NamedSenders(lNamed, lExecutor))
              /\ NamedSenders(lNamed, lExecutor)[i] \notin lAlive

\* Between the two passes other threads only append to a list, and the
\* pass that removes takes out the senders at the collected indexes and no
\* other sender.
RemovalPassRemovesFailedSenders ==
    /\ (lpc \in {"listeners_write", "listeners_delete"} /\ lpc' = lpc) =>
          IsPrefix(lListeners, lListeners')
    /\ (lpc \in {"named_write", "named_delete"} /\ lpc' = lpc) =>
          \A n \in Names : IsPrefix(NamedSenders(lNamed, n), NamedSenders(lNamed', n))
    /\ (lpc = "listeners_delete" /\ lpc' # lpc) =>
          /\ lpc' # "panicked"
          /\ lListeners' = Keep(lListeners, lIdx)
          /\ lNamed' = lNamed
    /\ (lpc = "named_delete" /\ lpc' # lpc) =>
          /\ lpc' # "panicked"
          /\ lListeners' = lListeners
          /\ \A n \in Names :
                NamedSenders(lNamed', n)
                    = IF n = lExecutor THEN Keep(NamedSenders(lNamed, n), lIdx)
                      ELSE NamedSenders(lNamed, n)

\* C36: pruning never unregisters a live subscriber: whatever other threads
\* register between the pass that sends under the read guard and the pass
\* that removes under the write guard, exactly the senders whose send
\* failed are removed, and a sender registered in between, also under the
\* name of dead ones, stays registered.
C36_PruningKeepsLiveSubscribers ==
    /\ []IndexesPointAtFailedSenders
    /\ [][RemovalPassRemovesFailedSenders]_vars

\* Every send to the subscribers of the executor has failed, and before the
\* background thread has the write guard another thread registers a
\* subscriber under that name.
C36_Witness ==
    /\ lpc = "named_write"
    /\ lIdx # {}
    /\ lIdx = DOMAIN NamedSenders(lNamed, lExecutor)
    /\ \E u \in UserThreads :
          /\ upc[u].at = "push"
          /\ upc[u].reg = "named_listeners"
          /\ upc[u].name = lExecutor

(***************************************************************************)
(* Claims about unterminated lines                                         *)
(***************************************************************************)

\* C37: the observer parses only complete lines.  The bytes of a line whose
\* newline is not written yet are neither parsed nor discarded: the reader
\* has consumed the file up to the end of a line, never up to a point
\* inside one; and once the rest of the line is written and read, the line
\* has been delivered to a live subscriber exactly once.
C37_OnlyCompleteLinesAreParsed ==
    /\ (readerPos > 0 /\ readerPos <= Len(files[readerFile])) =>
          files[readerFile][readerPos] = Newline
    /\ \A l \in ListenerIds : EarlySubscriber(l) =>
          /\ \A i, j \in DOMAIN inbox[l] : inbox[l][i] = inbox[l][j] => i = j
          /\ CaughtUp =>
                \A k \in NewLines : lineInfo[k].ok => k \in Range(inbox[l])

(***************************************************************************)
(* Claims about connections that share a world                             *)
(***************************************************************************)

\* C35: the acknowledgment listener of a connection removes a document of
\* its structures directory only after the host has loaded that document,
\* also when a connection with another identifier writes its completion
\* reports to the same log file.
C35_OnlyLoadedDocumentsRemoved ==
    [][\A d \in Ids :
          (apc' # apc /\ docs[d].present /\ ~docs'[d].present)
              => d \in consumed]_vars

(***************************************************************************)
(* Claims about CuboidCurve                                                *)
(***************************************************************************)

\* The cells of the cuboid of a size, and its corners.
Cuboid(size) ==
    (0 .. size[1] - 1) \X (0 .. size[2] - 1) \X (0 .. size[3] - 1)

Corners(size) ==
    {c \in Cuboid(size) : \A a \in 1 .. 3 : c[a] \in {0, size[a] - 1}}

Visited == {cItems[k].coordinate : k \in 1 .. Len(cItems)}

\* C39: for a cuboid with extents of at least 1, CuboidCurve starts at
\* (0,0,0), stays inside the cuboid, visits no cell twice, yields with each
\* cell the direction of the unit step to the next cell, and ends after
\* volume - 1 items having left out one corner; and no command block at an
\* oriented coordinate of the curve lies where the basic structure has a
\* block.
C39_CuboidCurveFillsCuboid ==
    /\ cItems # <<>> => cItems[1].coordinate = <<0, 0, 0>>
    /\ Visited \subseteq Cuboid(cSize)
    /\ \A j, k \in 1 .. Len(cItems) :
          cItems[j].coordinate = cItems[k].coordinate => j = k
    /\ \A k \in 1 .. Len(cItems) :
          /\ cItems[k].direction \in Direction3
          /\ Add3(cItems[k].coordinate, as_coordinate(cItems[k].direction))
                = IF k < Len(cItems) THEN cItems[k + 1].coordinate
                  ELSE IF cNext.some THEN cNext.at
                  ELSE CHOOSE c \in Cuboid(cSize) : c \notin Visited
    /\ cEnded =>
          /\ Len(cItems) = cSize[1] * cSize[2] * cSize[3] - 1
          /\ Cuboid(cSize) \ Visited \subseteq Corners(cSize)
    /\ \A k \in 1 .. Len(cItems) :
          Add3(orient_coordinate(CURVE_ORIENTATION, cItems[k].coordinate),
               CMD_BLOCK_OFFSET) \notin BasicStructurePositions

\* The curve has ended in a cuboid with three layers of three rows.
C39_Witness ==
    /\ cEnded
    /\ cSize = <<2, 3, 3>>
    /\ Len(cItems) = 17

(***************************************************************************)
(* Claims about the observer of log_observer.rs                            *)
(***************************************************************************)

\* C40: in the observer of log_observer.rs the removal after the sends
\* takes exactly the general listeners whose send failed out of
\* listener_vec, however many they are and wherever they stand, and every
\* other listener stays; and the removal of a named listener leaves a
\* listener that was registered under the name after the failed send.
C40_ExactlyDeadListenersRemoved ==
    [][/\ (qpc = "vec_write" /\ qpc' # qpc) =>
             /\ qpc' # "panicked"
             /\ qVec' = Keep(qVec, Range(qIdx))
       /\ (qpc = "map_write" /\ qpc' # qpc) =>
             \A n \in DOMAIN qMap :
                 qMap[n] \in qAlive => (n \in DOMAIN qMap' /\ qMap'[n] = qMap[n])
      ]_vars

====
